---- MODULE Spec2Model ----
(***************************************************************************)
(* Invite acceptance and organization-membership reconciliation.          *)
(*                                                                         *)
(* The model covers the AcceptInvite page (src/pages/AcceptInvite.tsx),   *)
(* the management operations of ClinicMembersTab (approveInvite,          *)
(* revokeInvite, removeMember), ScopeProvider.setOrg, and the remote      *)
(* document store and browser local storage they act on.                  *)
(*                                                                         *)
(* Conventions.  A JavaScript string is a tuple of one-character strings; *)
(* null/undefined of a string-valued field is the sentinel NullStr.       *)
(* Enumerated fields (status, role, ids) are TLA+ strings and their       *)
(* null/undefined is "null".  Server timestamps (claimedAt, addedAt,      *)
(* joinedAt, acceptedAt) are not represented.                              *)
(***************************************************************************)
EXTENDS Integers, Sequences, FiniteSets, TLC

\* ------------------------------------------------------------------ bounds
MaxFaults == 2        \* rejected remote operations
MaxAuthChanges == 1   \* sign-in / sign-out events of the browser session
MaxMgrOps == 2        \* management clicks (approve, revoke, remove)
MaxSaves == 1         \* Save clicks in the calendar preferences tab

Runs == {1, 2}        \* invocations of the page's effect (run())
Mounts == {1, 2}      \* mounted instances of the page (browser tabs)

\* ------------------------------------------------------- JavaScript strings
NullStr == <<"<null>">>
Null == "null"

Truthy(s) == s # NullStr /\ s # <<>>

\* a || b on strings
Or(a, b) == IF Truthy(a) THEN a ELSE b

\* String.prototype.toLowerCase on one character
LowerChar(c) ==
    CASE c = "P" -> "p"
      [] c = "A" -> "a"
      [] c = "T" -> "t"
      [] c = "L" -> "l"
      [] OTHER -> c

ToLowerCase(s) == [i \in DOMAIN s |-> LowerChar(s[i])]

RECURSIVE TrimStart(_)
TrimStart(s) == IF s # <<>> /\ Head(s) = " " THEN TrimStart(Tail(s)) ELSE s

RECURSIVE TrimEnd(_)
TrimEnd(s) ==
    IF s # <<>> /\ s[Len(s)] = " " THEN TrimEnd(SubSeq(s, 1, Len(s) - 1)) ELSE s

Trim(s) == TrimEnd(TrimStart(s))

\* s.split(" "): the segments between single spaces, empty ones included
RECURSIVE SplitSpace(_)
SplitSpace(s) ==
    IF s = <<>> THEN << <<>> >>
    ELSE LET rest == SplitSpace(Tail(s))
         IN  IF Head(s) = " " THEN << <<>> >> \o rest
             ELSE << <<Head(s)>> \o Head(rest) >> \o Tail(rest)

NonEmpty(x) == x # <<>>

\* parts.join(" ")
RECURSIVE JoinSpace(_)
JoinSpace(parts) ==
    IF parts = <<>> THEN <<>>
    ELSE IF Len(parts) = 1 THEN Head(parts)
    ELSE Head(parts) \o <<" ">> \o JoinSpace(Tail(parts))

\* ------------------------------------------------------------ document store
Exists(coll, id) == \E d \in coll : d.id = id

Get(coll, id) == CHOOSE d \in coll : d.id = id

\* Ids the store could hand out to a document created without a chosen key.
AutoIds == {"auto1", "auto2", "auto3", "auto4"}

Written(base, id, payload) ==
    [f \in DOMAIN base |->
        IF f = "id" THEN id
        ELSE IF f \in DOMAIN payload THEN payload[f] ELSE base[f]]

\* A write that appends a new document instead of writing at the key.
SetDocAppend(coll, id, payload, merge, blank) ==
    LET free == {a \in AutoIds : ~Exists(coll, a)}
        key == IF Exists(coll, id) /\ free # {} THEN CHOOSE a \in free : TRUE ELSE id
    IN  {d \in coll : d.id # key} \cup {Written(blank, key, payload)}

\* A setDoc that replaces the document whatever the merge option says.
SetDocNoMerge(coll, id, payload, merge, blank) ==
    {d \in coll : d.id # id} \cup {Written(blank, id, payload)}

\* setDoc(ref, payload, {merge}): the document at the key is replaced
\* (merge: false) or has the payload's fields overwritten (merge: true).
SetDoc(coll, id, payload, merge, blank) ==
    LET base == IF merge /\ Exists(coll, id) THEN Get(coll, id) ELSE blank
    IN  {d \in coll : d.id # id} \cup {Written(base, id, payload)}

\* updateDoc(ref, payload) on an existing document (it rejects otherwise;
\* the callers test Exists).
UpdateDoc(coll, id, payload) ==
    {d \in coll : d.id # id} \cup {Written(Get(coll, id), id, payload)}

DeleteDoc(coll, id) == {d \in coll : d.id # id}

BlankInvite ==
    [id |-> Null, status |-> Null, role |-> Null, email |-> NullStr,
     email_lc |-> NullStr, createdBy |-> Null, claimedBy |-> Null,
     claimedEmail |-> NullStr, claimedFirstName |-> NullStr,
     claimedLastName |-> NullStr, acceptedUserId |-> Null]

BlankMember ==
    [id |-> Null, userId |-> Null, email |-> NullStr, firstName |-> NullStr,
     lastName |-> NullStr, role |-> Null, fromInviteId |-> Null]

\* the prefs map of an index entry nobody saved preferences to
NoPrefs == [defaultView |-> Null, timeZone |-> Null]

BlankMembership ==
    [id |-> <<Null, Null>>, orgId |-> Null, orgName |-> Null, role |-> Null,
     prefs |-> NoPrefs]

BlankUser ==
    [id |-> Null, email |-> NullStr, firstName |-> NullStr, lastName |-> NullStr,
     scopeOrgId |-> Null, hasCompletedOnboarding |-> FALSE]

\* ------------------------------------------------------------------- state
VARIABLES
    inviteTokens,    \* orgs/{orgId}/inviteTokens/{token}; id = <<orgId, token>>
    invites,         \* orgs/OrgA/invites/{inviteId}
    members,         \* orgs/OrgA/members/{userId}
    orgMemberships,  \* users/{uid}/orgMemberships/{orgId}; id = <<uid, orgId>>
    users,           \* users/{uid}
    orgs,            \* orgs/{orgId}
    storage,         \* localStorage of the browser profile
    storageMode,     \* "ok"; "full": setItem throws; "denied": every access throws
    authUser,        \* the signed-in account of the browser session, or Null
    account,         \* email and displayName of the account U1
    faults,          \* rejections of remote operations still to come
    authChanges,     \* sign-in / sign-out events still to come
    link,            \* [m]: token and org parameter of the URL tab m opens
    page,            \* [m]: a mounted AcceptInvite page and its ScopeProvider
    run,             \* [r]: one invocation of the page's effect
    mgr,             \* the owner's ClinicMembersTab
    cal,             \* the invited user's CalendarGeneralTab, scope on OrgA
    onb,             \* the Onboarding page in the invited user's tab
    login            \* the Login page in the invited user's tab

\* page[m]:  state         "closed", "mounted" or "unmounted"
\*           providerAuth  ScopeProvider's authUser state
\*           scope         ScopeProvider's in-memory scope.orgId
\*           current       the run of the page's latest effect, or 0
\*           busy, err     the page's busy and err state
\*           completedRef  completedRef.current
\*           nav           the navigations made from the page
\* run[r]:   pc            where the run is; the name of the operation awaited
\*           mount         the page whose effect started the run, or 0
\*           tokenSnap, inv, firstName, lastName, orgName   its locals
\*           setOrgUser    authUser in the closure of the setOrg it calls
\*           subscribed    its onAuthStateChanged listener is registered
\*           delivered     the auth state last given to the listener
\*           cleaned       the effect's cleanup has run
\*           reason        how the run (or its last callback) ended
\*           oplog         remote operations issued; "cb" starts a callback
\* cal:      pc (position of save), view (the view chosen), ops (saves to come)
\* onb:      the Onboarding page: pc (position), firstName and lastName (the
\*           form fields as submitted), next (the value read from the
\*           after-onboarding key), to (where the page navigated)
\* login:    the Login page: pc (position), urlNext (the `next` parameter of
\*           its URL), loginNext (the localStorage key loginNext, which only
\*           this page uses), to (where the page navigated)
\* mgr:      myRole, pending (rows of the invites listener), pc and row
\*           (position and argument of approveInvite), ops (clicks still to come)

storeVars == <<inviteTokens, invites, members, orgMemberships, users, orgs>>
envVars == <<storage, storageMode, authUser, account, faults, authChanges, link>>
vars == <<storeVars, envVars, page, run, mgr, cal, onb, login>>

\* ------------------------------------------------------------ the fixed world
OrgA == "orgA"
U1 == "u1"          \* the invited account
Mgr == "mgr"        \* the clinic's owner
Tok1 == "tok1"
Inv1 == "inv1"

NoItem == <<>>      \* localStorage.getItem of a key that is not set

BlankToken == [id |-> <<Null, Null>>, inviteId |-> Null]

\* invitePath
InvitePath(token, orgId) ==
    IF token # "" /\ orgId # "" THEN <<"/invite", token, orgId>> ELSE <<>>

CanFault == faults > 0

ErrInvalidLink == "Invalid invite link."
ErrTokenNotFound == "Invite token not found or expired."
ErrSignIn == "Please sign in to accept the invitation."
ErrMalformed == "Malformed invite token."
ErrInviteNotFound == "Invite not found."
ErrNotPending == "This invitation is not pending anymore."
ErrEmail == "This invitation is addressed to a different email."
ErrRejected == "rejected"   \* e.message of a rejected remote operation

\* The remote operation a run awaits at each position.
OpOf(p) ==
    CASE p = "tokenRead"    -> "get:inviteTokens"
      [] p = "inviteRead"   -> "get:invites"
      [] p = "profileRead"  -> "get:users"
      [] p = "claim"        -> "update:invites"
      [] p = "member"       -> "set:members"
      [] p = "orgRead"      -> "get:orgs"
      [] p = "index"        -> "set:orgMemberships"
      [] p = "delete"       -> "delete:invites"
      [] p = "setOrgUpdate" -> "update:users"
      [] p = "setOrgSet"    -> "set:users"
      [] OTHER              -> "none"

InFlight == {"tokenRead", "inviteRead", "profileRead", "claim", "member",
             "orgRead", "index", "delete", "setOrgUpdate", "setOrgSet"}

\* run r issues the operation of position p and awaits it
Await(rr, p) == [rr EXCEPT !.pc = p, !.oplog = Append(@, OpOf(p))]

\* setBusy / setErr reach the page only while it is mounted
SetUi(pg, b, e) ==
    IF pg.state = "mounted" THEN [pg EXCEPT !.busy = b, !.err = e] ELSE pg

\* The buttons the page renders: Sign in and Sign up under
\* `!busy && err`, Go home under `!busy && !err`, none while busy.
Buttons(pg) ==
    IF pg.busy THEN {}
    ELSE IF pg.err # Null THEN {"Sign in", "Sign up"}
    ELSE {"Go home"}

SetBusy(pg, b) == IF pg.state = "mounted" THEN [pg EXCEPT !.busy = b] ELSE pg

\* The effect's cleanup, `() => unsubAuth()`, for run c: it releases the
\* listener if run() has registered it by now, and is a no-op otherwise.
Cleanup(rn, c) ==
    IF c = 0 THEN rn
    ELSE [rn EXCEPT ![c].subscribed = FALSE, ![c].cleaned = TRUE]

\* try { localStorage.setItem(key, value) } catch { }
SetItem(st, key, value) ==
    IF storageMode = "ok" THEN [st EXCEPT ![key] = value] ELSE st

\* Clearing that forgets the after-onboarding key.
RemoveOnlyPending(st) ==
    IF storageMode = "denied" THEN st
    ELSE [st EXCEPT !.pendingInvitePath = NoItem]

\* try { removeItem(PENDING_INVITE_KEY); removeItem(AFTER_ONBOARDING_NEXT) } catch { }
RemoveBoth(st) ==
    IF storageMode = "denied" THEN st
    ELSE [st EXCEPT !.pendingInvitePath = NoItem, !.afterOnboardingNext = NoItem]

\* ------------------------------------------------------ the page's effect
Idle == {r \in Runs : run[r].pc = "idle"}
FreeRun == CHOOSE r \in Idle : \A q \in Idle : r <= q

\* A stash made before the token is validated.
StashFirst(st, path) ==
    IF path # <<>> /\ storageMode = "ok"
    THEN [st EXCEPT !.pendingInvitePath = path, !.afterOnboardingNext = path]
    ELSE st

\* "Validate token BEFORE touching localStorage": between the URL check and
\* the token read the run leaves local storage alone.
BeforeTokenRead(st, path) == st

\* useEffect body up to the first await: setErr(null), URL sanity, getDoc
\* of the token.  pa is the ScopeProvider's authUser at this render.
StartRun(m, r, pa) ==
    LET valid == link[m].token # "" /\ link[m].org # ""
        rr == [run[r] EXCEPT !.mount = m, !.setOrgUser = pa]
        pg == [page[m] EXCEPT !.state = "mounted", !.providerAuth = pa,
                              !.current = r, !.err = Null,
                              !.scope = IF pa = Null THEN Null ELSE @]
    IN  IF valid
        THEN /\ run' = [Cleanup(run, page[m].current) EXCEPT ![r] = Await(rr, "tokenRead")]
             /\ page' = [page EXCEPT ![m] = pg]
             /\ storage' = BeforeTokenRead(storage, InvitePath(link[m].token, link[m].org))
        ELSE /\ run' = [Cleanup(run, page[m].current) EXCEPT
                           ![r] = [rr EXCEPT !.pc = "failed", !.reason = "invalid_link"]]
             /\ page' = [page EXCEPT ![m] = SetUi(pg, FALSE, ErrInvalidLink)]
             /\ storage' = RemoveBoth(storage)

\* The user opens the invite link in tab m: the page mounts and its effect
\* runs.  The ScopeProvider either has observed the session already (a
\* navigation inside the application) or still holds its initial null.
Open(m) ==
    /\ page[m].state = "closed"
    /\ \A k \in Mounts : k < m => page[k].state # "closed"
    /\ Idle # {}
    /\ \E pa \in {Null, authUser} : StartRun(m, FreeRun, pa)
    /\ UNCHANGED <<storeVars, storageMode, authUser, account, faults, authChanges, link, mgr, cal, onb, login>>

\* ScopeProvider's onAuthStateChanged: setAuthUser gives setOrg a new
\* identity, so the page's effect is cleaned up and runs again.
ProviderAuth(m) ==
    /\ page[m].state = "mounted"
    /\ page[m].providerAuth # authUser
    /\ Idle # {}
    /\ StartRun(m, FreeRun, authUser)
    /\ UNCHANGED <<storeVars, storageMode, authUser, account, faults, authChanges, link, mgr, cal, onb, login>>

\* The page is torn down (the user leaves it): the latest effect's cleanup.
Leave(m) ==
    /\ page[m].state = "mounted"
    /\ page' = [page EXCEPT ![m].state = "unmounted"]
    /\ run' = Cleanup(run, page[m].current)
    /\ UNCHANGED <<storeVars, envVars, mgr, cal, onb, login>>

SignIn ==
    /\ authUser = Null
    /\ authChanges > 0
    /\ authUser' = U1
    /\ authChanges' = authChanges - 1
    /\ UNCHANGED <<storeVars, storage, storageMode, account, faults, link, page, run, mgr, cal, onb, login>>

SignOut ==
    /\ authUser # Null
    /\ authChanges > 0
    /\ authUser' = Null
    /\ authChanges' = authChanges - 1
    /\ UNCHANGED <<storeVars, storage, storageMode, account, faults, link, page, run, mgr, cal, onb, login>>

\* A stash that forgets the after-onboarding key.
StashPendingOnly(st, path) ==
    IF path # <<>> /\ storageMode = "ok" THEN [st EXCEPT !.pendingInvitePath = path] ELSE st

\* 2) stash: try { if (invitePath) { setItem(PENDING_INVITE_KEY, invitePath);
\* setItem(AFTER_ONBOARDING_NEXT, invitePath) } } catch { }
Stash(st, path) ==
    IF path # <<>>
    THEN SetItem(SetItem(st, "pendingInvitePath", path), "afterOnboardingNext", path)
    ELSE st

\* run(): the token read returns; validate, stash, subscribe.
TokenRead(r) ==
    LET m == run[r].mount
        id == <<link[m].org, link[m].token>>
    IN
    /\ run[r].pc = "tokenRead"
    /\ \/ /\ CanFault                       \* getDoc rejects: run() rejects
          /\ faults' = faults - 1
          /\ run' = [run EXCEPT ![r].pc = "crashed", ![r].reason = "unhandled"]
          /\ UNCHANGED <<storage, page>>
       \/ /\ ~Exists(inviteTokens, id)
          /\ storage' = RemoveBoth(storage)
          /\ page' = [page EXCEPT ![m] = SetUi(@, FALSE, ErrTokenNotFound)]
          /\ run' = [run EXCEPT ![r].pc = "failed", ![r].reason = "not_found"]
          /\ faults' = faults
       \/ /\ Exists(inviteTokens, id)
          /\ storage' = Stash(storage, InvitePath(link[m].token, link[m].org))
          /\ run' = [run EXCEPT ![r].pc = "awaitAuth",
                                ![r].tokenSnap = Get(inviteTokens, id),
                                ![r].subscribed = TRUE]
          /\ page' = page
          /\ faults' = faults
    /\ UNCHANGED <<storeVars, storageMode, authUser, account, authChanges, link, mgr, cal, onb, login>>

\* ------------------------------------------------- the auth-state callback
Resting == {"awaitAuth", "failed", "done", "onboarding"}

NavOnboarding == [to |-> "/onboarding", toast |-> Null]
NavHome(name) == [to |-> "/", toast |-> name]

\* navigate(...) from the page: the route changes, the page unmounts and
\* the latest effect's cleanup runs.
Navigate(pg, target) == [pg EXCEPT !.nav = Append(@, target), !.state = "unmounted"]

\* an early `return` or the catch block: setErr(msg), setBusy(false)
Fail(r, why, msg) ==
    /\ run' = [run EXCEPT ![r].pc = "failed", ![r].reason = why]
    /\ page' = [page EXCEPT ![run[r].mount] = SetUi(@, FALSE, msg)]

\* the same after `const inv = inviteSnap.data()`
FailWith(r, d, why, msg) ==
    /\ run' = [run EXCEPT ![r].pc = "failed", ![r].reason = why, ![r].inv = d]
    /\ page' = [page EXCEPT ![run[r].mount] = SetUi(@, FALSE, msg)]

\* myEmail
MyEmail ==
    LET t == ToLowerCase(Trim(Or(account.email, <<>>)))
    IN  IF t = <<>> THEN NullStr ELSE t

\* A target email taken from email_lc alone.
InviteEmailLcOnly(d) == d.email_lc

\* inviteEmailLC
InviteEmailLC(d) ==
    IF d.email_lc # NullStr THEN d.email_lc
    ELSE IF d.email # NullStr THEN ToLowerCase(Trim(d.email))
    ELSE NullStr

\* A comparison that does not test for presence.
EmailMismatchStrict(d) == InviteEmailLC(d) # MyEmail

\* inviteEmailLC && myEmail && inviteEmailLC !== myEmail
EmailMismatch(d) ==
    Truthy(InviteEmailLC(d)) /\ Truthy(MyEmail) /\ InviteEmailLC(d) # MyEmail

\* A status check that knows of revocation only.
NotPendingRevokedOnly(d) == d.status = "revoked"

\* A status check that also turns away an invite somebody has claimed.
NotPendingOrClaimed(d) ==
    (d.status # Null /\ d.status # "pending") \/ d.claimedBy # Null

\* (inv.status ?? "pending") !== "pending"
NotPending(d) == d.status # Null /\ d.status # "pending"

\* A profile name taken without trimming.
ProfileNameNoTrim(x) == IF Truthy(x) THEN x ELSE NullStr

\* (p?.firstName || "").trim() || null
ProfileName(x) ==
    LET t == Trim(Or(x, <<>>)) IN IF t = <<>> THEN NullStr ELSE t

\* (u.displayName || "").trim().split(" ").filter(Boolean)
DisplayParts == SelectSeq(SplitSpace(Trim(Or(account.displayName, <<>>))), NonEmpty)

\* firstName || parts[0] || null
ResolveFirst(f) ==
    IF Truthy(f) THEN f
    ELSE IF Len(DisplayParts) >= 1 THEN DisplayParts[1] ELSE NullStr

\* lastName || (parts.slice(1).join(" ") || null)
ResolveLast(l) ==
    IF Truthy(l) THEN l
    ELSE LET j == IF Len(DisplayParts) >= 1 THEN JoinSpace(Tail(DisplayParts)) ELSE <<>>
         IN  IF j = <<>> THEN NullStr ELSE j

\* inv.role ?? "member"
RoleOf(d) == IF d.role = Null THEN "member" ELSE d.role

\* inv.status ?? "pending"
StatusOf(d) == IF d.status = Null THEN "pending" ELSE d.status

\* onAuthStateChanged invokes the listener of run r with the session's
\* current state.
AuthCallback(r) ==
    LET m == run[r].mount
        \* a new invocation: its locals are fresh
        rr == [run[r] EXCEPT !.delivered = authUser, !.oplog = Append(@, "cb"),
                             !.inv = BlankInvite, !.firstName = NullStr,
                             !.lastName = NullStr, !.orgName = Null]
    IN
    /\ run[r].subscribed
    /\ run[r].pc \in Resting
    /\ run[r].delivered # authUser
    /\ IF authUser = Null
       THEN /\ run' = [run EXCEPT ![r] = [rr EXCEPT !.pc = "awaitAuth", !.reason = "sign_in"]]
            /\ page' = [page EXCEPT ![m] = SetUi(@, FALSE, ErrSignIn)]
       ELSE IF run[r].tokenSnap.inviteId = Null
       THEN /\ run' = [run EXCEPT ![r] = [rr EXCEPT !.pc = "failed", !.reason = "malformed_token"]]
            /\ page' = [page EXCEPT ![m] = SetUi(@, FALSE, ErrMalformed)]
       ELSE /\ run' = [run EXCEPT ![r] = Await([rr EXCEPT !.reason = "none"], "inviteRead")]
            /\ page' = [page EXCEPT ![m] = SetBusy(@, TRUE)]
    /\ UNCHANGED <<storeVars, envVars, mgr, cal, onb, login>>

\* Clearing both keys when the status or email check blocks the run.
ClearWhenBlocked(st) == RemoveBoth(st)

\* The status branch (line 85) and the email branch (lines 90-94) return
\* without touching local storage.
WhenBlocked(st) == st

\* 1) resolve invite, status check, 2) email soft guard
InviteRead(r) ==
    LET id == run[r].tokenSnap.inviteId
        blocked == /\ Exists(invites, id)
                   /\ NotPending(Get(invites, id)) \/ EmailMismatch(Get(invites, id))
    IN
    /\ run[r].pc = "inviteRead"
    /\ \/ /\ CanFault
          /\ faults' = faults - 1
          /\ Fail(r, "error", ErrRejected)
          /\ storage' = storage
       \/ /\ faults' = faults
          /\ storage' = IF blocked THEN WhenBlocked(storage) ELSE storage
          /\ IF ~Exists(invites, id) THEN Fail(r, "not_found", ErrInviteNotFound)
             ELSE IF NotPending(Get(invites, id))
             THEN FailWith(r, Get(invites, id), "not_pending", ErrNotPending)
             ELSE IF EmailMismatch(Get(invites, id))
             THEN FailWith(r, Get(invites, id), "email_mismatch", ErrEmail)
             ELSE /\ run' = [run EXCEPT ![r] = Await([@ EXCEPT !.inv = Get(invites, id)], "profileRead")]
                  /\ page' = page
    /\ UNCHANGED <<storeVars, storageMode, authUser, account, authChanges, link, mgr, cal, onb, login>>

\* 3) first and last name from users/{uid}, else from displayName, else
\* the onboarding detour.  A rejected profile read is swallowed.
ProfileRead(r) ==
    LET m == run[r].mount
        path == InvitePath(link[m].token, link[m].org)
    IN
    /\ run[r].pc = "profileRead"
    /\ \E readFails \in {FALSE} \cup (IF CanFault THEN {TRUE} ELSE {}) :
        LET has == ~readFails /\ Exists(users, U1)
            p == IF has THEN Get(users, U1) ELSE BlankUser
            firstName == ResolveFirst(ProfileName(p.firstName))
            lastName == ResolveLast(ProfileName(p.lastName))
            rr == [run[r] EXCEPT !.firstName = firstName, !.lastName = lastName]
        IN
        /\ faults' = IF readFails THEN faults - 1 ELSE faults
        /\ IF ~Truthy(firstName) \/ ~Truthy(lastName)
           THEN /\ storage' = SetItem(storage, "afterOnboardingNext", path)
                /\ page' = [page EXCEPT ![m] = Navigate(SetBusy(@, FALSE), NavOnboarding)]
                /\ run' = Cleanup([run EXCEPT ![r] = [rr EXCEPT !.pc = "onboarding",
                                                                !.reason = "onboarding"]],
                                  page[m].current)
           ELSE /\ storage' = storage
                /\ page' = page
                /\ run' = [run EXCEPT ![r] = Await(rr, "claim")]
    /\ UNCHANGED <<storeVars, storageMode, authUser, account, authChanges, link, mgr, cal, onb, login>>

\* The order of the awaited operations after the profile check.
NextStepSwapped(p) ==
    CASE p = "claim"   -> "orgRead"
      [] p = "orgRead" -> "index"
      [] p = "index"   -> "member"
      [] p = "member"  -> "delete"
      [] OTHER         -> "finalize"

NextStep(p) ==
    CASE p = "claim"   -> "member"
      [] p = "member"  -> "orgRead"
      [] p = "orgRead" -> "index"
      [] p = "index"   -> "delete"
      [] OTHER         -> "finalize"

\* A claim write that leaves out who claimed.
ClaimPayloadNoClaimant(rr) ==
    [status |-> StatusOf(rr.inv), role |-> RoleOf(rr.inv), email |-> rr.inv.email,
     createdBy |-> rr.inv.createdBy, claimedEmail |-> MyEmail,
     claimedFirstName |-> rr.firstName, claimedLastName |-> rr.lastName]

ClaimPayload(rr) ==
    [status |-> StatusOf(rr.inv), role |-> RoleOf(rr.inv), email |-> rr.inv.email,
     createdBy |-> rr.inv.createdBy, claimedBy |-> U1, claimedEmail |-> MyEmail,
     claimedFirstName |-> rr.firstName, claimedLastName |-> rr.lastName]

\* A member payload that always grants the default role.
MemberPayloadPlainRole(rr) ==
    [userId |-> U1, email |-> account.email, firstName |-> rr.firstName,
     lastName |-> rr.lastName, role |-> "member",
     fromInviteId |-> rr.tokenSnap.inviteId]

MemberPayload(rr) ==
    [userId |-> U1, email |-> account.email, firstName |-> rr.firstName,
     lastName |-> rr.lastName, role |-> RoleOf(rr.inv),
     fromInviteId |-> rr.tokenSnap.inviteId]

\* An index payload that always records the default role.
IndexPayloadPlainRole(rr) ==
    [orgId |-> link[rr.mount].org, orgName |-> rr.orgName, role |-> "member"]

IndexPayload(rr) ==
    [orgId |-> link[rr.mount].org, orgName |-> rr.orgName, role |-> RoleOf(rr.inv)]

\* Swallowing that also covers the member write.
SwallowedAndMember(p) ==
    p \in {"profileRead", "orgRead", "delete", "setOrgUpdate", "member"}

\* Swallowing that does not cover the invite deletion.
SwallowedButDelete(p) == p \in {"profileRead", "orgRead", "setOrgUpdate"}

\* The awaits wrapped in a try/catch of their own, whose rejection is
\* ignored; a rejection of any other await reaches the callback's catch.
Swallowed(p) == p \in {"profileRead", "orgRead", "delete", "setOrgUpdate"}

\* the await of position p rejected: carry on, or fail in the catch block
Rejected(r, p) ==
    IF Swallowed(p)
    THEN /\ run' = [run EXCEPT ![r] = Await(@, NextStep(p))]
         /\ page' = page
    ELSE Fail(r, "error", ErrRejected)

\* 4) claim invite: updateDoc rejects when the document is gone
Claim(r) ==
    LET id == run[r].tokenSnap.inviteId IN
    /\ run[r].pc = "claim"
    /\ \/ /\ CanFault
          /\ faults' = faults - 1
          /\ Rejected(r, "claim")
          /\ invites' = invites
       \/ /\ faults' = faults
          /\ IF Exists(invites, id)
             THEN /\ invites' = UpdateDoc(invites, id, ClaimPayload(run[r]))
                  /\ run' = [run EXCEPT ![r] = Await(@, NextStep("claim"))]
                  /\ page' = page
             ELSE /\ Rejected(r, "claim")
                  /\ invites' = invites
    /\ UNCHANGED <<inviteTokens, members, orgMemberships, users, orgs,
                   storage, storageMode, authUser, account, authChanges, link, mgr, cal, onb, login>>

\* 5) create member: setDoc with merge: false
Member(r) ==
    /\ run[r].pc = "member"
    /\ \/ /\ CanFault
          /\ faults' = faults - 1
          /\ Rejected(r, "member")
          /\ members' = members
       \/ /\ faults' = faults
          /\ members' = SetDoc(members, U1, MemberPayload(run[r]), FALSE, BlankMember)
          /\ run' = [run EXCEPT ![r] = Await(@, NextStep("member"))]
          /\ page' = page
    /\ UNCHANGED <<inviteTokens, invites, orgMemberships, users, orgs,
                   storage, storageMode, authUser, account, authChanges, link, mgr, cal, onb, login>>

\* 6) the org's display name, "Clinic" when the read fails or has no name
OrgRead(r) ==
    LET o == link[run[r].mount].org IN
    /\ run[r].pc = "orgRead"
    /\ \E readFails \in {FALSE} \cup (IF CanFault THEN {TRUE} ELSE {}) :
          /\ faults' = IF readFails THEN faults - 1 ELSE faults
          /\ IF readFails /\ ~Swallowed("orgRead")
             THEN Fail(r, "error", ErrRejected)
             ELSE /\ run' = [run EXCEPT ![r] = Await(
                        [@ EXCEPT !.orgName =
                            IF ~readFails /\ Exists(orgs, o) /\ Get(orgs, o).name # Null
                            THEN Get(orgs, o).name ELSE "Clinic"],
                        NextStep("orgRead"))]
                  /\ page' = page
    /\ UNCHANGED <<storeVars, storage, storageMode, authUser, account, authChanges, link, mgr, cal, onb, login>>

\* 6) reverse index: setDoc with merge: true
Index(r) ==
    /\ run[r].pc = "index"
    /\ \/ /\ CanFault
          /\ faults' = faults - 1
          /\ Rejected(r, "index")
          /\ orgMemberships' = orgMemberships
       \/ /\ faults' = faults
          /\ orgMemberships' = SetDoc(orgMemberships, <<U1, link[run[r].mount].org>>,
                                      IndexPayload(run[r]), TRUE, BlankMembership)
          /\ run' = [run EXCEPT ![r] = Await(@, NextStep("index"))]
          /\ page' = page
    /\ UNCHANGED <<inviteTokens, invites, members, users, orgs,
                   storage, storageMode, authUser, account, authChanges, link, mgr, cal, onb, login>>

\* A completion that navigates whatever completedRef holds.
CompleteAlways(r, rn, pgs) ==
    LET m == run[r].mount
        pg == pgs[m]
    IN  /\ page' = [pgs EXCEPT ![m] = Navigate(
                        [SetBusy(pg, FALSE) EXCEPT !.completedRef = TRUE],
                        NavHome(run[r].orgName))]
        /\ run' = [Cleanup(rn, pg.current) EXCEPT ![r].pc = "done", ![r].reason = "done"]

\* if (!completedRef.current) { completedRef.current = true; navigate("/") }
\* and the finally block
Complete(r, rn, pgs) ==
    LET m == run[r].mount
        pg == pgs[m]
    IN
    IF ~pg.completedRef
    THEN /\ page' = [pgs EXCEPT ![m] = Navigate(
                        [SetBusy(pg, FALSE) EXCEPT !.completedRef = TRUE],
                        NavHome(run[r].orgName))]
         /\ run' = [Cleanup(rn, pg.current) EXCEPT ![r].pc = "done", ![r].reason = "done"]
    ELSE /\ page' = [pgs EXCEPT ![m] = SetBusy(pg, FALSE)]
         /\ run' = [rn EXCEPT ![r].pc = "done", ![r].reason = "done"]

\* 7) delete invite (a failure is swallowed), then 8) clear both keys and
\* call setOrg: setScope, and updateDoc of users/{uid}.scope when the
\* provider had a user.
Delete(r) ==
    LET m == run[r].mount
        pgs == [page EXCEPT ![m].scope = link[m].org]
    IN
    /\ run[r].pc = "delete"
    /\ \E deleteFails \in {FALSE} \cup (IF CanFault THEN {TRUE} ELSE {}) :
          /\ faults' = IF deleteFails THEN faults - 1 ELSE faults
          /\ invites' = IF deleteFails THEN invites
                        ELSE DeleteDoc(invites, run[r].tokenSnap.inviteId)
          /\ IF deleteFails /\ ~Swallowed("delete")
             THEN /\ Fail(r, "error", ErrRejected)
                  /\ storage' = storage
             ELSE /\ storage' = RemoveBoth(storage)
                  /\ IF run[r].setOrgUser # Null
                     THEN /\ run' = [run EXCEPT ![r] = Await(@, "setOrgUpdate")]
                          /\ page' = pgs
                     ELSE Complete(r, run, pgs)
    /\ UNCHANGED <<inviteTokens, members, orgMemberships, users, orgs,
                   storageMode, authUser, account, authChanges, link, mgr, cal, onb, login>>

ScopePayload(o) == [scopeOrgId |-> o]

\* setOrg: updateDoc(users/{uid}, {scope}); on rejection the merge-set
SetOrgUpdate(r) ==
    LET uid == run[r].setOrgUser IN
    /\ run[r].pc = "setOrgUpdate"
    /\ \/ /\ CanFault
          /\ faults' = faults - 1
          /\ run' = [run EXCEPT ![r] = Await(@, "setOrgSet")]
          /\ UNCHANGED <<users, page>>
       \/ /\ faults' = faults
          /\ IF Exists(users, uid)
             THEN /\ users' = UpdateDoc(users, uid, ScopePayload(link[run[r].mount].org))
                  /\ Complete(r, run, page)
             ELSE /\ run' = [run EXCEPT ![r] = Await(@, "setOrgSet")]
                  /\ UNCHANGED <<users, page>>
    /\ UNCHANGED <<inviteTokens, invites, members, orgMemberships, orgs,
                   storage, storageMode, authUser, account, authChanges, link, mgr, cal, onb, login>>

\* setOrg: setDoc(users/{uid}, {scope}, {merge: true}); a rejection
\* propagates to the callback's catch
SetOrgSet(r) ==
    LET uid == run[r].setOrgUser IN
    /\ run[r].pc = "setOrgSet"
    /\ \/ /\ CanFault
          /\ faults' = faults - 1
          /\ Fail(r, "error", ErrRejected)
          /\ users' = users
       \/ /\ faults' = faults
          /\ users' = SetDoc(users, uid, ScopePayload(link[run[r].mount].org), TRUE, BlankUser)
          /\ Complete(r, run, page)
    /\ UNCHANGED <<inviteTokens, invites, members, orgMemberships, orgs,
                   storage, storageMode, authUser, account, authChanges, link, mgr, cal, onb, login>>

\* ---------------------------------------------------- ClinicMembersTab
\* canManage
CanManage == mgr.myRole = "owner" \/ mgr.myRole = "admin"

\* the members listener: myRole from the caller's own member row
MyRoleIn(ms) ==
    IF \E d \in ms : d.userId = Mgr
    THEN LET d == CHOOSE d \in ms : d.userId = Mgr
         IN  IF d.role = Null THEN "member" ELSE d.role
    ELSE Null

\* one row of the pending-invites listener
InviteRow(d) ==
    [id |-> d.id, email |-> Or(d.email, <<>>), role |-> RoleOf(d),
     status |-> StatusOf(d), claimedBy |-> d.claimedBy,
     claimedEmail |-> IF Truthy(d.claimedEmail) THEN d.claimedEmail ELSE NullStr,
     claimedFirstName |-> IF Truthy(d.claimedFirstName) THEN d.claimedFirstName ELSE NullStr,
     claimedLastName |-> IF Truthy(d.claimedLastName) THEN d.claimedLastName ELSE NullStr]

\* query(invites, where("status", "==", "pending"))
PendingRows == {InviteRow(d) : d \in {x \in invites : x.status = "pending"}}

BlankArgs ==
    [id |-> Null, uid |-> Null, role |-> Null, email |-> <<>>,
     firstName |-> <<>>, lastName |-> <<>>]

\* the orgName prop of the tab, `orgName || "Clinic"`
TabOrgName ==
    IF Exists(orgs, OrgA) /\ Get(orgs, OrgA).name # Null
    THEN Get(orgs, OrgA).name ELSE "Clinic"

MembersSnapshot ==
    /\ mgr.myRole # MyRoleIn(members)
    /\ mgr' = [mgr EXCEPT !.myRole = MyRoleIn(members)]
    /\ UNCHANGED <<storeVars, envVars, page, run, cal, onb, login>>

InvitesSnapshot ==
    /\ mgr.myRole # Null
    /\ mgr.pending # PendingRows
    /\ mgr' = [mgr EXCEPT !.pending = PendingRows]
    /\ UNCHANGED <<storeVars, envVars, page, run, cal, onb, login>>

\* approveInvite(inv) up to its first await
ApproveClick ==
    /\ mgr.pc = "idle"
    /\ mgr.ops > 0
    /\ CanManage
    /\ \E row \in mgr.pending :
        /\ row.claimedBy # Null          \* the Approve button is rendered
        /\ LET args == [id |-> row.id, uid |-> row.claimedBy, role |-> row.role,
                        email |-> Trim(Or(Or(row.claimedEmail, row.email), <<>>)),
                        firstName |-> Or(row.claimedFirstName, <<>>),
                        lastName |-> Or(row.claimedLastName, <<>>)]
               complete == args.firstName # <<>> /\ args.lastName # <<>> /\ args.email # <<>>
           IN  mgr' = [mgr EXCEPT !.ops = @ - 1, !.args = args,
                                  !.pc = IF complete THEN "apMember" ELSE "apUser"]
    /\ UNCHANGED <<storeVars, envVars, page, run, cal, onb, login>>

\* fallback to users/{uid}; a rejected read is ignored
ApproveUser ==
    /\ mgr.pc = "apUser"
    /\ \E readFails \in {FALSE} \cup (IF CanFault THEN {TRUE} ELSE {}) :
        LET has == ~readFails /\ Exists(users, mgr.args.uid)
            p == IF has THEN Get(users, mgr.args.uid) ELSE BlankUser
        IN  /\ faults' = IF readFails THEN faults - 1 ELSE faults
            /\ mgr' = [mgr EXCEPT !.pc = "apMember",
                          !.args.firstName = Or(Or(@, p.firstName), <<>>),
                          !.args.lastName = Or(Or(@, p.lastName), <<>>),
                          !.args.email = Or(Or(@, p.email), <<>>)]
    /\ UNCHANGED <<storeVars, storage, storageMode, authUser, account, authChanges, link, page, run, cal, onb, login>>

\* 1) write member under the org, merge: true
ApproveMember ==
    /\ mgr.pc = "apMember"
    /\ \/ /\ CanFault
          /\ faults' = faults - 1
          /\ mgr' = [mgr EXCEPT !.pc = "idle"]
          /\ members' = members
       \/ /\ faults' = faults
          /\ members' = SetDoc(members, mgr.args.uid,
                               [userId |-> mgr.args.uid, email |-> mgr.args.email,
                                firstName |-> mgr.args.firstName,
                                lastName |-> mgr.args.lastName, role |-> mgr.args.role],
                               TRUE, BlankMember)
          /\ mgr' = [mgr EXCEPT !.pc = "apIndex"]
    /\ UNCHANGED <<inviteTokens, invites, orgMemberships, users, orgs,
                   storage, storageMode, authUser, account, authChanges, link, page, run, cal, onb, login>>

\* 2) index membership under the user, merge: true
ApproveIndex ==
    /\ mgr.pc = "apIndex"
    /\ \/ /\ CanFault
          /\ faults' = faults - 1
          /\ mgr' = [mgr EXCEPT !.pc = "idle"]
          /\ orgMemberships' = orgMemberships
       \/ /\ faults' = faults
          /\ orgMemberships' = SetDoc(orgMemberships, <<mgr.args.uid, OrgA>>,
                                      [orgId |-> OrgA, orgName |-> TabOrgName,
                                       role |-> mgr.args.role],
                                      TRUE, BlankMembership)
          /\ mgr' = [mgr EXCEPT !.pc = "apInvite"]
    /\ UNCHANGED <<inviteTokens, invites, members, users, orgs,
                   storage, storageMode, authUser, account, authChanges, link, page, run, cal, onb, login>>

\* 3) mark invite accepted: updateDoc rejects when the document is gone
ApproveInvite ==
    /\ mgr.pc = "apInvite"
    /\ mgr' = [mgr EXCEPT !.pc = "idle"]
    /\ \/ /\ CanFault
          /\ faults' = faults - 1
          /\ invites' = invites
       \/ /\ faults' = faults
          /\ invites' = IF Exists(invites, mgr.args.id)
                        THEN UpdateDoc(invites, mgr.args.id,
                                       [status |-> "accepted", acceptedUserId |-> mgr.args.uid])
                        ELSE invites
    /\ UNCHANGED <<inviteTokens, members, orgMemberships, users, orgs,
                   storage, storageMode, authUser, account, authChanges, link, page, run, cal, onb, login>>

\* revokeInvite(i.id) for a row of the pending list
RevokeInvite ==
    /\ mgr.ops > 0
    /\ CanManage
    /\ \E row \in mgr.pending :
        \/ /\ CanFault
           /\ faults' = faults - 1
           /\ invites' = invites
        \/ /\ faults' = faults
           /\ invites' = IF Exists(invites, row.id)
                         THEN UpdateDoc(invites, row.id, [status |-> "revoked"])
                         ELSE invites
    /\ mgr' = [mgr EXCEPT !.ops = @ - 1]
    /\ UNCHANGED <<inviteTokens, members, orgMemberships, users, orgs,
                   storage, storageMode, authUser, account, authChanges, link, page, run, cal, onb, login>>

\* removeMember(m.userId) for a row of the members list other than the
\* caller's own
RemoveMember ==
    /\ mgr.ops > 0
    /\ CanManage
    /\ \E d \in members :
        /\ d.userId # Mgr
        /\ \/ /\ CanFault
              /\ faults' = faults - 1
              /\ members' = members
           \/ /\ faults' = faults
              /\ members' = DeleteDoc(members, d.id)
    /\ mgr' = [mgr EXCEPT !.ops = @ - 1]
    /\ UNCHANGED <<inviteTokens, invites, orgMemberships, users, orgs,
                   storage, storageMode, authUser, account, authChanges, link, page, run, cal, onb, login>>

\* ------------------------------------------- CalendarGeneralTab (part_005)
Views == {"day", "week", "month"}

TimeZone == "UTC"

\* scope.orgId || "" of the invited user's tab: the provider's scope follows
\* the persisted users/{uid}.scope
CalOrgId ==
    IF Exists(users, U1) /\ Get(users, U1).scopeOrgId # Null
    THEN Get(users, U1).scopeOrgId ELSE ""

\* save() up to its first await, with the view the user has selected
SaveClick ==
    /\ cal.pc = "idle"
    /\ cal.ops > 0
    /\ authUser = U1
    /\ CalOrgId # ""
    /\ \E v \in Views :
          cal' = [cal EXCEPT !.pc = "set", !.view = v, !.ops = @ - 1, !.orgId = CalOrgId]
    /\ UNCHANGED <<storeVars, envVars, page, run, mgr, onb, login>>

\* await setDoc(ref, { orgId }, { merge: true })
SaveSet ==
    /\ cal.pc = "set"
    /\ \/ /\ CanFault
          /\ faults' = faults - 1
          /\ cal' = [cal EXCEPT !.pc = "idle"]
          /\ orgMemberships' = orgMemberships
       \/ /\ faults' = faults
          /\ orgMemberships' = SetDoc(orgMemberships, <<U1, cal.orgId>>,
                                      [orgId |-> cal.orgId], TRUE, BlankMembership)
          /\ cal' = [cal EXCEPT !.pc = "update"]
    /\ UNCHANGED <<inviteTokens, invites, members, users, orgs,
                   storage, storageMode, authUser, account, authChanges, link, page, run, mgr, onb, login>>

\* await updateDoc(ref, { "prefs.defaultView": view, "prefs.timeZone": tz })
SaveUpdate ==
    /\ cal.pc = "update"
    /\ cal' = [cal EXCEPT !.pc = "idle"]
    /\ \/ /\ CanFault
          /\ faults' = faults - 1
          /\ orgMemberships' = orgMemberships
       \/ /\ faults' = faults
          /\ orgMemberships' =
                IF Exists(orgMemberships, <<U1, cal.orgId>>)
                THEN UpdateDoc(orgMemberships, <<U1, cal.orgId>>,
                               [prefs |-> [defaultView |-> cal.view, timeZone |-> TimeZone]])
                ELSE orgMemberships
    /\ UNCHANGED <<inviteTokens, invites, members, users, orgs,
                   storage, storageMode, authUser, account, authChanges, link, page, run, mgr, onb, login>>

CalStep == SaveClick \/ SaveSet \/ SaveUpdate

\* ------------------------------------------------ URLs of the invite link
TokPlus == "t+k"    \* a token with a character that encodeURIComponent escapes

\* The characters of the identifiers that occur in links.
Chars(s) ==
    CASE s = "tok1" -> <<"t", "o", "k", "1">>
      [] s = "tok9" -> <<"t", "o", "k", "9">>
      [] s = "old"  -> <<"o", "l", "d">>
      [] s = "t+k"  -> <<"t", "+", "k">>
      [] s = "orgA" -> <<"o", "r", "g", "A">>
      [] s = "orgB" -> <<"o", "r", "g", "B">>
      [] s = "/calendar" -> <<"/", "c", "a", "l", "e", "n", "d", "a", "r">>
      [] OTHER      -> <<>>

\* encodeURIComponent of one character: everything but letters, digits and
\* - _ . ! ~ * ' ( ) becomes %XX
EncodeChar(c) ==
    CASE c = "+" -> <<"%", "2", "B">>
      [] c = " " -> <<"%", "2", "0">>
      [] c = "/" -> <<"%", "2", "F">>
      [] c = "?" -> <<"%", "3", "F">>
      [] c = "=" -> <<"%", "3", "D">>
      [] c = "&" -> <<"%", "2", "6">>
      [] c = "%" -> <<"%", "2", "5">>
      [] OTHER   -> <<c>>

RECURSIVE EncodeURIComponent(_)
EncodeURIComponent(s) ==
    IF s = <<>> THEN <<>> ELSE EncodeChar(Head(s)) \o EncodeURIComponent(Tail(s))

DecodeHex(a, b) ==
    CASE <<a, b>> = <<"2", "B">> -> "+"
      [] <<a, b>> = <<"2", "0">> -> " "
      [] <<a, b>> = <<"2", "F">> -> "/"
      [] <<a, b>> = <<"3", "F">> -> "?"
      [] <<a, b>> = <<"3", "D">> -> "="
      [] <<a, b>> = <<"2", "6">> -> "&"
      [] OTHER                   -> "%"

\* decodeURIComponent
RECURSIVE DecodeURIComponent(_)
DecodeURIComponent(s) ==
    IF s = <<>> THEN <<>>
    ELSE IF Head(s) = "%" /\ Len(s) >= 3
    THEN <<DecodeHex(s[2], s[3])>> \o DecodeURIComponent(SubSeq(s, 4, Len(s)))
    ELSE <<Head(s)>> \o DecodeURIComponent(Tail(s))

InvitePrefix == <<"/", "i", "n", "v", "i", "t", "e", "/">>

OrgQuery == <<"?", "o", "r", "g", "=">>

\* `/invite/${encodeURIComponent(token)}?org=${encodeURIComponent(orgId)}`:
\* the string a stored invite path stands for
PathString(p) ==
    IF p = <<>> THEN <<>>
    ELSE IF Len(p) = 1 THEN Chars(p[1])
    ELSE InvitePrefix \o EncodeURIComponent(Chars(p[2]))
         \o OrgQuery \o EncodeURIComponent(Chars(p[3]))

StartsWith(s, pre) == Len(s) >= Len(pre) /\ SubSeq(s, 1, Len(pre)) = pre

\* first position of character c in s, Len(s) + 1 when there is none
RECURSIVE IndexOfChar(_, _)
IndexOfChar(s, c) ==
    IF s = <<>> \/ Head(s) = c THEN 1 ELSE 1 + IndexOfChar(Tail(s), c)

\* new URL(next, origin).pathname
Pathname(s) == SubSeq(s, 1, IndexOfChar(s, "?") - 1)

\* url.searchParams.get("org"): the decoded value, <<>> for a missing one
OrgParam(s) ==
    LET q == SubSeq(s, IndexOfChar(s, "?"), Len(s))
    IN  IF StartsWith(q, OrgQuery)
        THEN LET v == SubSeq(q, Len(OrgQuery) + 1, Len(q))
             IN  DecodeURIComponent(SubSeq(v, 1, IndexOfChar(v, "&") - 1))
        ELSE <<>>

\* useParams().token: the path segment, decoded
PathTokenDecoded(s) ==
    DecodeURIComponent(SubSeq(Pathname(s), Len(InvitePrefix) + 1, Len(Pathname(s))))

\* url.pathname.split("/invite/")[1] || "": the path segment as it stands in
\* the URL, escapes included
PathToken(s) == SubSeq(Pathname(s), Len(InvitePrefix) + 1, Len(Pathname(s)))

\* the router's params for /invite/:token?org=: both decoded
RouteOf(s) == [token |-> PathTokenDecoded(s), org |-> OrgParam(s)]

\* ------------------------------------------------- Onboarding (part_002)
BlankOnboarding ==
    [pc |-> "closed", firstName |-> <<>>, lastName |-> <<>>, err |-> Null,
     next |-> NoItem, token |-> <<>>, org |-> <<>>, to |-> NoItem,
     route |-> [token |-> <<>>, org |-> <<>>]]

\* what the user may type into a name field
TypedNames == {<<"P", "a">>, <<" ", "L", "e", " ">>, <<"x">>, <<" ">>}

FieldErr == "Please fix the highlighted fields."

\* getFieldError(name, value) = ""
FieldOk(v) == Len(Trim(v)) >= 2

HomePath == <<"/">>

\* navigate(path, { replace: true }) from the Onboarding page; for an invite
\* path the router decodes the parameters of /invite/:token?org=
NavigateTo(o, path) ==
    [o EXCEPT !.pc = "left", !.to = path,
              !.route = IF Len(path) = 3 THEN RouteOf(PathString(path)) ELSE @]

\* the application is showing /onboarding
AtOnboarding ==
    \E m \in Mounts : /\ page[m].nav # <<>>
                      /\ page[m].nav[Len(page[m].nav)] = NavOnboarding
                      /\ \A k \in Mounts : k > m => page[k].state = "closed"

\* the page mounts and its auth listener is called
OnbMount ==
    /\ onb.pc = "closed"
    /\ AtOnboarding
    /\ onb' = [onb EXCEPT !.pc = IF authUser = Null THEN "login" ELSE "preload"]
    /\ UNCHANGED <<storeVars, envVars, page, run, mgr, cal, login>>

\* the listener after getDoc(users/{uid}): a user who has completed
\* onboarding is sent on to the stored next path
OnbPreload ==
    /\ onb.pc = "preload"
    /\ \/ /\ CanFault
          /\ faults' = faults - 1
          /\ onb' = [onb EXCEPT !.pc = "stuck"]
          /\ storage' = storage
       \/ /\ faults' = faults
          /\ IF Exists(users, U1) /\ Get(users, U1).hasCompletedOnboarding
             THEN IF storageMode = "denied"
                  THEN onb' = [onb EXCEPT !.pc = "stuck"] /\ storage' = storage
                  ELSE /\ storage' = [storage EXCEPT !.afterOnboardingNext = NoItem]
                       /\ onb' = NavigateTo(onb, IF storage.afterOnboardingNext # NoItem
                                                 THEN storage.afterOnboardingNext
                                                 ELSE HomePath)
             ELSE onb' = [onb EXCEPT !.pc = "form"] /\ storage' = storage
    /\ UNCHANGED <<storeVars, storageMode, authUser, account, authChanges, link,
                   page, run, mgr, cal, login>>

\* saveProfile up to its first await: field validation
OnbSubmit ==
    /\ onb.pc = "form"
    /\ \E f \in TypedNames, l \in TypedNames :
          onb' = IF FieldOk(f) /\ FieldOk(l)
                 THEN [onb EXCEPT !.pc = "saving", !.err = Null,
                                  !.firstName = Trim(f), !.lastName = Trim(l)]
                 ELSE [onb EXCEPT !.err = FieldErr]
    /\ onb' # onb
    /\ UNCHANGED <<storeVars, envVars, page, run, mgr, cal, login>>

\* After a stored next path is not followed: both keys are removed.
ForgetNext(st) == [st EXCEPT !.afterOnboardingNext = NoItem, !.pendingInvitePath = NoItem]

\* saveProfile after setDoc(users/{uid}, payload, {merge: true}): the next
\* path is read and, for an invite path, taken apart
OnbSave ==
    /\ onb.pc = "saving"
    /\ \/ /\ CanFault
          /\ faults' = faults - 1
          /\ onb' = [onb EXCEPT !.pc = "fallback"]
          /\ UNCHANGED <<users, storage>>
       \/ /\ faults' = faults
          /\ users' = SetDoc(users, U1,
                             [email |-> account.email, firstName |-> onb.firstName,
                              lastName |-> onb.lastName, hasCompletedOnboarding |-> TRUE],
                             TRUE, BlankUser)
          /\ LET next == storage.afterOnboardingNext
                 str == PathString(next)
             IN  IF storageMode = "denied"
                 THEN onb' = [onb EXCEPT !.pc = "fallback"] /\ storage' = storage
                 ELSE IF next # NoItem /\ StartsWith(str, InvitePrefix)
                 THEN IF PathToken(str) # <<>> /\ OrgParam(str) # <<>>
                      THEN /\ onb' = [onb EXCEPT !.pc = "tokenCheck", !.next = next,
                                         !.token = PathToken(str), !.org = OrgParam(str)]
                           /\ storage' = storage
                      ELSE /\ onb' = [onb EXCEPT !.pc = "memRead", !.next = next]
                           /\ storage' = ForgetNext(storage)
                 ELSE IF next # NoItem
                 THEN /\ onb' = NavigateTo([onb EXCEPT !.next = next], next)
                      /\ storage' = [storage EXCEPT !.afterOnboardingNext = NoItem]
                 ELSE onb' = [onb EXCEPT !.pc = "memRead"] /\ storage' = storage
    /\ UNCHANGED <<inviteTokens, invites, members, orgMemberships, orgs,
                   storageMode, authUser, account, authChanges, link, page, run, mgr, cal, login>>

\* getDoc(doc(db, "orgs", orgId, "inviteTokens", token)).exists()
TokenKnown(org, token) ==
    \E d \in inviteTokens : Chars(d.id[1]) = org /\ Chars(d.id[2]) = token

\* saveProfile after the token read: back to the invite link when the token
\* has a record, on to the memberships otherwise
OnbTokenCheck ==
    /\ onb.pc = "tokenCheck"
    /\ \/ /\ CanFault
          /\ faults' = faults - 1
          /\ storage' = ForgetNext(storage)
          /\ onb' = [onb EXCEPT !.pc = "memRead"]
       \/ /\ faults' = faults
          /\ IF TokenKnown(onb.org, onb.token)
             THEN /\ storage' = [storage EXCEPT !.afterOnboardingNext = NoItem]
                  /\ onb' = NavigateTo(onb, onb.next)
             ELSE /\ storage' = ForgetNext(storage)
                  /\ onb' = [onb EXCEPT !.pc = "memRead"]
    /\ UNCHANGED <<storeVars, storageMode, authUser, account, authChanges, link,
                   page, run, mgr, cal, login>>

\* getDocs(users/{uid}/orgMemberships): home for a user with a clinic, the
\* clinic step otherwise
OnbMemRead ==
    /\ onb.pc = "memRead"
    /\ \/ /\ CanFault
          /\ faults' = faults - 1
          /\ onb' = [onb EXCEPT !.pc = "fallback"]
       \/ /\ faults' = faults
          /\ onb' = IF \E e \in orgMemberships : e.id[1] = U1
                    THEN NavigateTo(onb, HomePath)
                    ELSE [onb EXCEPT !.pc = "clinic"]
    /\ UNCHANGED <<storeVars, storage, storageMode, authUser, account, authChanges, link,
                   page, run, mgr, cal, login>>

\* the catch block: when the profile turns out to be saved, home or the
\* clinic step; the form with an error otherwise
OnbFallback ==
    /\ onb.pc = "fallback"
    /\ \/ /\ CanFault
          /\ faults' = faults - 1
          /\ onb' = [onb EXCEPT !.pc = "form"]
       \/ /\ faults' = faults
          /\ LET ok == /\ Exists(users, U1)
                       /\ Get(users, U1).hasCompletedOnboarding
                       /\ Or(Get(users, U1).firstName, <<>>) = onb.firstName
                       /\ Or(Get(users, U1).lastName, <<>>) = onb.lastName
             IN  onb' = IF ~ok THEN [onb EXCEPT !.pc = "form"]
                        ELSE IF \E e \in orgMemberships : e.id[1] = U1
                        THEN NavigateTo(onb, HomePath)
                        ELSE [onb EXCEPT !.pc = "clinic"]
    /\ UNCHANGED <<storeVars, storage, storageMode, authUser, account, authChanges, link,
                   page, run, mgr, cal, login>>

\* A signed-in user opens /onboarding.
OnbVisit ==
    /\ onb.pc = "closed"
    /\ authUser # Null
    /\ onb' = [onb EXCEPT !.pc = "preload"]
    /\ UNCHANGED <<storeVars, envVars, page, run, mgr, cal, login>>

NewOrg == "orgN"    \* doc(collection(db, "orgs")).id

\* A createClinic that does not look at the pending-invite key.
CreateClinicClickNoGuard ==
    /\ onb.pc = "clinic"
    /\ onb' = IF storageMode = "denied" THEN [onb EXCEPT !.pc = "stuck"]
              ELSE [onb EXCEPT !.pc = "newOrg", !.err = Null]
    /\ UNCHANGED <<storeVars, envVars, page, run, mgr, cal, login>>

\* createClinic up to its first await: a pending invite is followed and
\* nothing is created; getItem is not guarded
CreateClinicClick ==
    /\ onb.pc = "clinic"
    /\ onb' = IF storageMode = "denied" THEN [onb EXCEPT !.pc = "stuck"]
              ELSE IF storage.pendingInvitePath # NoItem
              THEN NavigateTo(onb, storage.pendingInvitePath)
              ELSE [onb EXCEPT !.pc = "newOrg", !.err = Null]
    /\ UNCHANGED <<storeVars, envVars, page, run, mgr, cal, login>>

\* One awaited setDoc of createClinic returns: the org (position newOrg),
\* the owner's member record under it (its id is "orgN/u1"), the index
\* entry; a rejection shows the error on the clinic step.
CreateClinicWrite(st, stores) ==
    /\ onb.pc = st
    /\ \/ /\ CanFault
          /\ faults' = faults - 1
          /\ onb' = [onb EXCEPT !.pc = "clinic", !.err = "Failed to create clinic."]
          /\ stores' = stores
       \/ /\ faults' = faults
          /\ \/ /\ st = "newOrg"
                /\ orgs' = orgs \cup {[id |-> NewOrg, name |-> "Clinic"]}
                /\ onb' = [onb EXCEPT !.pc = "newMember"]
             \/ /\ st = "newMember"
                /\ members' = SetDoc(members, "orgN/u1",
                                     [userId |-> U1, email |-> account.email,
                                      firstName |-> onb.firstName,
                                      lastName |-> onb.lastName, role |-> "owner"],
                                     FALSE, BlankMember)
                /\ onb' = [onb EXCEPT !.pc = "newIndex"]
             \/ /\ st = "newIndex"
                /\ orgMemberships' = SetDoc(orgMemberships, <<U1, NewOrg>>,
                                            [orgId |-> NewOrg, orgName |-> "Clinic",
                                             role |-> "owner"],
                                            FALSE, BlankMembership)
                /\ onb' = [onb EXCEPT !.pc = "newScope"]

ClinicOrg ==
    /\ CreateClinicWrite("newOrg", orgs)
    /\ UNCHANGED <<inviteTokens, invites, members, orgMemberships, users,
                   storage, storageMode, authUser, account, authChanges, link,
                   page, run, mgr, cal, login>>

ClinicMember ==
    /\ CreateClinicWrite("newMember", members)
    /\ UNCHANGED <<inviteTokens, invites, orgMemberships, users, orgs,
                   storage, storageMode, authUser, account, authChanges, link,
                   page, run, mgr, cal, login>>

ClinicIndex ==
    /\ CreateClinicWrite("newIndex", orgMemberships)
    /\ UNCHANGED <<inviteTokens, invites, members, users, orgs,
                   storage, storageMode, authUser, account, authChanges, link,
                   page, run, mgr, cal, login>>

\* try { await setOrg(orgId, name) } catch { }; navigate("/"): setOrg's
\* updateDoc, its merge-set when the update rejects, both rejections ignored
ClinicScope ==
    /\ onb.pc = "newScope"
    /\ onb' = NavigateTo(onb, HomePath)
    /\ \/ /\ faults >= 2
          /\ faults' = faults - 2
          /\ users' = users
       \/ /\ CanFault
          /\ faults' = faults - 1
          /\ users' = SetDoc(users, U1, ScopePayload(NewOrg), TRUE, BlankUser)
       \/ /\ faults' = faults
          /\ users' = IF Exists(users, U1)
                      THEN UpdateDoc(users, U1, ScopePayload(NewOrg))
                      ELSE SetDoc(users, U1, ScopePayload(NewOrg), TRUE, BlankUser)
    /\ UNCHANGED <<inviteTokens, invites, members, orgMemberships, orgs,
                   storage, storageMode, authUser, account, authChanges, link,
                   page, run, mgr, cal, login>>

CreateClinicStep ==
    CreateClinicClick \/ ClinicOrg \/ ClinicMember \/ ClinicIndex \/ ClinicScope

OnbStep ==
    \/ OnbMount \/ OnbPreload \/ OnbSubmit \/ OnbSave
    \/ OnbTokenCheck \/ OnbMemRead \/ OnbFallback

\* ---------------------------------------------------- Login (Login.tsx)
BlankLogin == [pc |-> "closed", urlNext |-> NoItem, loginNext |-> NoItem, to |-> NoItem]

OnboardingPath == <<"/onboarding">>

\* sp.get("next") || getItem(LOGIN_NEXT_KEY) || getItem(PENDING_INVITE_KEY)
LoginDestination ==
    IF login.urlNext # NoItem THEN login.urlNext
    ELSE IF login.loginNext # NoItem THEN login.loginNext
    ELSE storage.pendingInvitePath

\* onSubmit with accepted credentials, or onGooglePopup, which first stores
\* the URL's next under loginNext: the account is signed in and
\* handleAfterSignIn awaits getDoc(users/{uid})
LoginSignIn ==
    /\ login.pc = "form"
    /\ authUser = Null
    /\ \E google \in BOOLEAN :
          IF google /\ login.urlNext # NoItem
          THEN IF storageMode = "ok"
               THEN /\ login' = [login EXCEPT !.pc = "userRead", !.loginNext = login.urlNext]
                    /\ authUser' = U1
               ELSE /\ login' = [login EXCEPT !.pc = "error"]
                    /\ authUser' = authUser
          ELSE /\ login' = [login EXCEPT !.pc = "userRead"]
               /\ authUser' = U1
    /\ UNCHANGED <<storeVars, storage, storageMode, account, faults, authChanges, link,
                   page, run, mgr, cal, onb>>

\* stashNextForOnboarding(); navigate("/onboarding"): the local storage
\* calls are not guarded, so a call that throws rejects handleAfterSignIn
\* and the caller's catch shows the banner
StashAndOnboard ==
    LET next == LoginDestination IN
    IF storageMode = "denied" \/ (storageMode = "full" /\ next # NoItem)
    THEN /\ login' = [login EXCEPT !.pc = "error"]
         /\ storage' = storage
    ELSE /\ login' = [login EXCEPT !.pc = "left", !.to = OnboardingPath,
                                   !.loginNext = IF next # NoItem THEN NoItem ELSE @]
         /\ storage' = IF next # NoItem
                       THEN [storage EXCEPT !.afterOnboardingNext = next,
                                            !.pendingInvitePath = NoItem]
                       ELSE storage

\* handleAfterSignIn after getDoc(users/{uid})
LoginUserRead ==
    /\ login.pc = "userRead"
    /\ \/ /\ CanFault
          /\ faults' = faults - 1
          /\ login' = [login EXCEPT !.pc = "error"]
          /\ storage' = storage
       \/ /\ faults' = faults
          /\ IF ~Exists(users, U1)
             THEN login' = [login EXCEPT !.pc = "create"] /\ storage' = storage
             ELSE IF ~Get(users, U1).hasCompletedOnboarding
             THEN StashAndOnboard
             ELSE IF storageMode = "denied"
             THEN login' = [login EXCEPT !.pc = "error"] /\ storage' = storage
             ELSE LET next == LoginDestination IN
                  /\ login' = [login EXCEPT !.pc = "left",
                                   !.to = IF next # NoItem THEN next ELSE <<"/">>,
                                   !.loginNext = NoItem]
                  /\ storage' = IF next # NoItem
                                THEN [storage EXCEPT !.pendingInvitePath = NoItem]
                                ELSE storage
    /\ users' = users
    /\ UNCHANGED <<inviteTokens, invites, members, orgMemberships, orgs,
                   storageMode, authUser, account, authChanges, link,
                   page, run, mgr, cal, onb>>

\* the minimal users/{uid} document of a new user, setDoc with merge: true
LoginCreate ==
    /\ login.pc = "create"
    /\ \/ /\ CanFault
          /\ faults' = faults - 1
          /\ login' = [login EXCEPT !.pc = "recheck"]
          /\ UNCHANGED <<users, storage>>
       \/ /\ faults' = faults
          /\ users' = SetDoc(users, U1, [email |-> Or(account.email, <<>>),
                                         hasCompletedOnboarding |-> FALSE],
                             TRUE, BlankUser)
          /\ StashAndOnboard
    /\ UNCHANGED <<inviteTokens, invites, members, orgMemberships, orgs,
                   storageMode, authUser, account, authChanges, link,
                   page, run, mgr, cal, onb>>

\* the catch of the rejected setDoc: `const re = await getDoc(userRef);
\* if (!re.exists()) throw e`
LoginRecheck ==
    /\ login.pc = "recheck"
    /\ \/ /\ CanFault
          /\ faults' = faults - 1
          /\ login' = [login EXCEPT !.pc = "error"]
          /\ storage' = storage
       \/ /\ faults' = faults
          /\ IF Exists(users, U1) THEN StashAndOnboard
             ELSE login' = [login EXCEPT !.pc = "error"] /\ storage' = storage
    /\ UNCHANGED <<storeVars, storageMode, authUser, account, authChanges, link,
                   page, run, mgr, cal, onb>>

LoginStep == LoginSignIn \/ LoginUserRead \/ LoginCreate \/ LoginRecheck

CalendarPath == <<"/calendar">>

\* The user arrives at /login, with or without a `next` parameter (the
\* invite page's Sign in button passes the invite path).
LoginOpen ==
    /\ login.pc = "closed"
    /\ \E n \in {NoItem, InvitePath(Tok1, OrgA), CalendarPath} :
          login' = [login EXCEPT !.pc = "form", !.urlNext = n]
    /\ UNCHANGED <<storeVars, envVars, page, run, mgr, cal, onb>>

\* ------------------------------------------------------------ initial states
EPat == <<"p", "a", "t">>
EPatMixed == <<"P", "a", "T">>
EPatPadded == <<" ", "P", "a", "t", " ">>
EBob == <<"b", "o", "b">>

NFirst == <<"P", "a">>
NLast == <<"L", "e">>
NBlank == <<" ">>
DFull == <<"P", "a", " ", "L", "e">>
DWide == <<" ", "P", "a", " ", " ", "L", "e", " ", "J", "r">>

\* An invite as the issuer stores it: email_lc, when kept, is the
\* case-folded copy of email.
MkInvite(status, role, email, keepLc) ==
    [BlankInvite EXCEPT !.id = Inv1, !.status = status, !.role = role,
        !.email = email, !.createdBy = Mgr,
        !.email_lc = IF keepLc /\ email # NullStr THEN ToLowerCase(Trim(email)) ELSE NullStr]

MkUser(first, last, email) ==
    [BlankUser EXCEPT !.id = U1, !.firstName = first, !.lastName = last,
        !.email = email, !.hasCompletedOnboarding = Truthy(first) /\ Truthy(last)]

MkToken(inviteId) == [id |-> <<OrgA, Tok1>>, inviteId |-> inviteId]

OwnerMember ==
    [BlankMember EXCEPT !.id = Mgr, !.userId = Mgr, !.email = <<"m">>,
        !.firstName = <<"M">>, !.lastName = <<"O">>, !.role = "owner"]

OwnerMembership ==
    [BlankMembership EXCEPT !.id = <<Mgr, OrgA>>, !.orgId = OrgA,
        !.orgName = "Acme", !.role = "owner"]

GoodLink == [token |-> Tok1, org |-> OrgA]

BlankRun ==
    [pc |-> "idle", mount |-> 0, tokenSnap |-> BlankToken, inv |-> BlankInvite,
     firstName |-> NullStr, lastName |-> NullStr, orgName |-> Null,
     setOrgUser |-> Null, subscribed |-> FALSE, delivered |-> "none",
     cleaned |-> FALSE, reason |-> "none", oplog |-> <<>>]

BlankPage ==
    [state |-> "closed", providerAuth |-> Null, scope |-> Null, current |-> 0,
     busy |-> TRUE, err |-> Null, completedRef |-> FALSE, nav |-> <<>>]

\* The tabs before any page is opened; the owner's members tab and the
\* invited user's calendar preferences tab are open.
InitTabs(nFaults, nAuth, nMgr, nCal) ==
    /\ faults = nFaults
    /\ authChanges = nAuth
    /\ page = [m \in Mounts |-> BlankPage]
    /\ run = [r \in Runs |-> BlankRun]
    /\ mgr = [myRole |-> Null, pending |-> {}, pc |-> "idle", args |-> BlankArgs, ops |-> nMgr]
    /\ cal = [pc |-> "idle", view |-> "month", orgId |-> "", ops |-> nCal]
    /\ onb = BlankOnboarding
    /\ login = BlankLogin

\* The client side of a clinic whose only member is its owner.
InitClient(nFaults, nAuth, nMgr) ==
    /\ InitTabs(nFaults, nAuth, nMgr, 0)
    /\ members = {OwnerMember}
    /\ orgMemberships = {OwnerMembership}

EmptyStorage == [pendingInvitePath |-> NoItem, afterOnboardingNext |-> NoItem]

\* Scenario A of the specification, with the invite's role stored or left out.
ScenarioA ==
    /\ inviteTokens = {MkToken(Inv1)}
    /\ invites \in {{MkInvite("pending", role, EPatMixed, TRUE)} : role \in {Null, "admin"}}
    /\ users = {MkUser(NFirst, NLast, EPat)}
    /\ orgs = {[id |-> OrgA, name |-> "Acme"]}
    /\ storage = EmptyStorage
    /\ storageMode = "ok"
    /\ account = [email |-> EPat, displayName |-> NullStr]
    /\ link = [m \in Mounts |-> GoodLink]

RunStep(r) ==
    \/ TokenRead(r) \/ AuthCallback(r) \/ InviteRead(r) \/ ProfileRead(r)
    \/ Claim(r) \/ Member(r) \/ OrgRead(r) \/ Index(r) \/ Delete(r)
    \/ SetOrgUpdate(r) \/ SetOrgSet(r)

MgrStep ==
    \/ MembersSnapshot \/ InvitesSnapshot
    \/ ApproveClick \/ ApproveUser \/ ApproveMember \/ ApproveIndex \/ ApproveInvite
    \/ RevokeInvite \/ RemoveMember

\* approveInvite and the two listeners of the members tab
ApproveStep ==
    \/ MembersSnapshot \/ InvitesSnapshot
    \/ ApproveClick \/ ApproveUser \/ ApproveMember \/ ApproveIndex \/ ApproveInvite

\* One tab: the page, its effect re-run, rejections, a session change; the
\* token record, the invite and the profile vary.
Init ==
    /\ InitClient(MaxFaults, MaxAuthChanges, 0)
    /\ inviteTokens \in {{MkToken(i)} : i \in {Inv1, Null}}
    /\ invites \in {{}} \cup {{MkInvite(status, role, email, TRUE)} :
                                status \in {Null, "pending", "accepted"},
                                role \in {Null, "admin"},
                                email \in {EPatMixed, EBob}}
    /\ users \in {{}, {MkUser(NFirst, NLast, EPat)}}
    /\ orgs = {[id |-> OrgA, name |-> "Acme"]}
    /\ storage = EmptyStorage
    /\ storageMode = "ok"
    /\ account = [email |-> EPat, displayName |-> NullStr]
    /\ link = [m \in Mounts |-> GoodLink]
    /\ authUser \in {Null, U1}

Next ==
    \/ Open(1) \/ ProviderAuth(1)
    \/ \E r \in Runs : RunStep(r)
    \/ SignIn \/ SignOut

Spec == Init /\ [][Next]_vars

\* Two runs side by side, in two tabs or as the effect's re-run in one.
InitRace ==
    /\ InitClient(MaxFaults, 0, 0)
    /\ ScenarioA
    /\ authUser = U1

NextRace ==
    \/ \E m \in Mounts : Open(m) \/ ProviderAuth(m)
    \/ \E r \in Runs : RunStep(r)

SpecRace == InitRace /\ [][NextRace]_vars

\* The same link followed twice in a row: the second page is opened once
\* the first run is done.
InitSeq ==
    /\ InitClient(MaxFaults, 0, 0)
    /\ ScenarioA
    /\ authUser = U1

OpenAgain == run[1].pc = "done" /\ Open(2)

NextSeq ==
    \/ Open(1) \/ OpenAgain
    \/ \E r \in Runs : RunStep(r)

SpecSeq == InitSeq /\ [][NextSeq]_vars

\* A run that stopped is reloaded: the page is torn down and the link is
\* opened again.  The number of rejections to come varies.
InitReload ==
    /\ \E n \in 1..MaxFaults : InitClient(n, 0, 0)
    /\ ScenarioA
    /\ authUser = U1

LeaveStopped == run[1].pc \in {"failed", "crashed"} /\ Leave(1)

Reopen == page[1].state = "unmounted" /\ run[1].pc \in {"failed", "crashed"} /\ Open(2)

NextReload ==
    \/ Open(1) \/ LeaveStopped \/ Reopen
    \/ \E r \in Runs : RunStep(r)

SpecReload == InitReload /\ [][NextReload]_vars

\* Every awaited operation of the reloaded page's run returns and its
\* continuation is run.
LiveReload == SpecReload /\ WF_vars(RunStep(2))

\* The page is torn down at any point of its run: while the token read is
\* in flight, while the listener waits, or in the middle of a callback.
InitLeave ==
    /\ InitClient(MaxFaults, MaxAuthChanges, 0)
    /\ ScenarioA
    /\ authUser \in {Null, U1}

NextLeave ==
    \/ Open(1) \/ Leave(1)
    \/ \E r \in Runs : RunStep(r)
    \/ SignIn \/ SignOut

SpecLeave == InitLeave /\ [][NextLeave]_vars

\* The page stays mounted while the session changes more than once: the
\* user signs out and signs in again.  The invite is pending or accepted.
InitSession ==
    /\ InitClient(MaxFaults, MaxAuthChanges + 1, 0)
    /\ inviteTokens = {MkToken(Inv1)}
    /\ invites \in {{MkInvite(status, "admin", email, TRUE)} :
                        status \in {"pending", "accepted"}, email \in {EPatMixed, EBob}}
    /\ users = {MkUser(NFirst, NLast, EPat)}
    /\ orgs = {[id |-> OrgA, name |-> "Acme"]}
    /\ storage = EmptyStorage
    /\ storageMode = "ok"
    /\ account = [email |-> EPat, displayName |-> NullStr]
    /\ link = [m \in Mounts |-> GoodLink]
    /\ authUser \in {Null, U1}

NextSession ==
    \/ Open(1)
    \/ \E r \in Runs : RunStep(r)
    \/ SignIn \/ SignOut

SpecSession == InitSession /\ [][NextSession]_vars

\* Scenario C: an invited user without names, the detour through the
\* Onboarding page and the way back.  The token is plain or has a character
\* that is escaped in URLs; local storage is writable, full or inaccessible.
InitResume ==
    /\ \E n \in 0..MaxFaults : InitClient(n, 0, 0)
    /\ \E tok \in {Tok1, TokPlus} :
          /\ inviteTokens = {[id |-> <<OrgA, tok>>, inviteId |-> Inv1]}
          /\ link = [m \in Mounts |-> [token |-> tok, org |-> OrgA]]
    /\ invites = {MkInvite("pending", "member", EPatMixed, TRUE)}
    /\ users \in {{}, {MkUser(NullStr, NullStr, EPat)}, {MkUser(NBlank, NLast, EPat)}}
    /\ orgs = {[id |-> OrgA, name |-> "Acme"]}
    /\ storage = EmptyStorage
    /\ storageMode \in {"ok", "full", "denied"}
    /\ account = [email |-> EPat, displayName |-> NullStr]
    /\ authUser = U1

\* navigate(next) from the Onboarding page: the router mounts the invite
\* page with the parameters it decodes from the path
Resume ==
    /\ onb.pc = "left"
    /\ Len(onb.to) = 3
    /\ onb.route = [token |-> Chars(link[2].token), org |-> Chars(link[2].org)]
    /\ Open(2)

NextResume ==
    \/ Open(1)
    \/ \E r \in Runs : RunStep(r)
    \/ OnbStep
    \/ Resume

SpecResume == InitResume /\ [][NextResume]_vars

\* Awaited operations return and their continuations run; a navigation
\* mounts its page.  The user's clicks are not forced.
Settles ==
    \/ OnbMount \/ OnbPreload \/ OnbSave \/ OnbTokenCheck \/ OnbMemRead \/ OnbFallback
    \/ Resume
    \/ \E r \in Runs : RunStep(r)

LiveResume == SpecResume /\ WF_vars(Settles)

\* Every awaited operation of a run returns and its continuation is run; the
\* auth listener delivers the current user.
LiveRun == Spec /\ \A r \in Runs : WF_vars(RunStep(r))

\* The invite page and the Onboarding page of one tab, for every profile
\* state: no profile, names missing, names stored, and the onboarding flag
\* set over missing names; with and without a display name on the account.
InitBounce ==
    /\ InitClient(MaxFaults, 0, 0)
    /\ inviteTokens = {MkToken(Inv1)}
    /\ invites = {MkInvite("pending", "member", EPatMixed, TRUE)}
    /\ users \in {{}} \cup
          {{[MkUser(f, l, EPat) EXCEPT !.hasCompletedOnboarding = c]} :
               f \in {NullStr, <<>>, NFirst}, l \in {NullStr, NLast}, c \in BOOLEAN}
    /\ orgs = {[id |-> OrgA, name |-> "Acme"]}
    /\ storage = EmptyStorage
    /\ storageMode = "ok"
    /\ account \in {[email |-> EPat, displayName |-> d] : d \in {NullStr, DFull}}
    /\ link = [m \in Mounts |-> GoodLink]
    /\ authUser = U1

\* navigate(next) from the Onboarding page to the invite link: the router
\* unmounts Onboarding and mounts a new instance of the invite page, whose
\* state and refs start afresh.
Revisit ==
    /\ onb.pc = "left"
    /\ Len(onb.to) = 3
    /\ onb.route = [token |-> Chars(link[1].token), org |-> Chars(link[1].org)]
    /\ page' = [m \in Mounts |-> BlankPage]
    /\ run' = [r \in Runs |-> BlankRun]
    /\ onb' = BlankOnboarding
    /\ UNCHANGED <<storeVars, envVars, mgr, cal, login>>

NextBounce ==
    \/ Open(1)
    \/ \E r \in Runs : RunStep(r)
    \/ OnbStep
    \/ Revisit

SpecBounce == InitBounce /\ [][NextBounce]_vars

\* Awaited operations return and their continuations run; a navigation
\* mounts its page.  The user's clicks are not forced.
SettlesBounce ==
    \/ Open(1) \/ Revisit
    \/ OnbMount \/ OnbPreload \/ OnbSave \/ OnbTokenCheck \/ OnbMemRead \/ OnbFallback
    \/ \E r \in Runs : RunStep(r)

LiveBounce == SpecBounce /\ WF_vars(SettlesBounce)

\* One run and the owner's members tab.
InitMgr ==
    /\ InitClient(MaxFaults, 0, MaxMgrOps)
    /\ inviteTokens = {MkToken(Inv1)}
    /\ invites \in {{MkInvite("pending", role, email, TRUE)} :
                        role \in {Null, "admin"}, email \in {EPatMixed, NullStr}}
    /\ users = {MkUser(NFirst, NLast, EPat)}
    /\ orgs = {[id |-> OrgA, name |-> "Acme"]}
    /\ storage = EmptyStorage
    /\ storageMode = "ok"
    /\ account \in {[email |-> e, displayName |-> NullStr] : e \in {EPat, NullStr}}
    /\ link = [m \in Mounts |-> GoodLink]
    /\ authUser = U1

NextMgr ==
    \/ Open(1)
    \/ \E r \in Runs : RunStep(r)
    \/ MgrStep

SpecMgr == InitMgr /\ [][NextMgr]_vars

\* The Login page of a signed-out user: no profile yet, a profile without
\* completed onboarding, or a completed one; the pending-invite key set by an
\* invite page or not; local storage writable, full or inaccessible.
InitLogin ==
    /\ InitClient(MaxFaults, 0, 0)
    /\ inviteTokens = {MkToken(Inv1)}
    /\ invites = {MkInvite("pending", "member", EPatMixed, TRUE)}
    /\ users \in {{}, {MkUser(NullStr, NullStr, EPat)}, {MkUser(NFirst, NLast, EPat)}}
    /\ orgs = {[id |-> OrgA, name |-> "Acme"]}
    /\ storageMode \in {"ok", "full", "denied"}
    /\ storage \in {[pendingInvitePath |-> p, afterOnboardingNext |-> p] :
                        p \in {NoItem, InvitePath(Tok1, OrgA)}}
    /\ storageMode = "denied" => storage = EmptyStorage
    /\ account = [email |-> EPat, displayName |-> NullStr]
    /\ link = [m \in Mounts |-> GoodLink]
    /\ authUser = Null

NextLogin == LoginOpen \/ LoginStep

SpecLogin == InitLogin /\ [][NextLogin]_vars

\* what the after-onboarding and pending-invite keys may hold: nothing, an
\* invite link (token plain, with an escaped character, unknown, or with the
\* org parameter empty), another path of the application
Destinations ==
    {NoItem, InvitePath(Tok1, OrgA), InvitePath(TokPlus, OrgA), InvitePath("tok9", OrgA),
     <<"/invite", Tok1, "">>, CalendarPath}

\* The Onboarding page of a signed-in user whose profile is missing,
\* incomplete or complete, with any content of the two resume keys.
InitOnboard ==
    /\ InitClient(MaxFaults, 0, 0)
    /\ inviteTokens = {MkToken(Inv1), [id |-> <<OrgA, TokPlus>>, inviteId |-> Inv1]}
    /\ invites = {MkInvite("pending", "member", EPatMixed, TRUE)}
    /\ users \in {{}, {MkUser(NullStr, NullStr, EPat)}, {MkUser(NFirst, NLast, EPat)}}
    /\ orgs = {[id |-> OrgA, name |-> "Acme"]}
    /\ storageMode \in {"ok", "full", "denied"}
    /\ storage \in [pendingInvitePath : Destinations, afterOnboardingNext : Destinations]
    /\ storageMode = "denied" => storage = EmptyStorage
    /\ account = [email |-> EPat, displayName |-> NullStr]
    /\ link = [m \in Mounts |-> GoodLink]
    /\ authUser = U1

NextOnboard ==
    \/ OnbVisit \/ OnbPreload \/ OnbSubmit \/ OnbSave
    \/ OnbTokenCheck \/ OnbMemRead \/ OnbFallback
    \/ CreateClinicStep

SpecOnboard == InitOnboard /\ [][NextOnboard]_vars

\* A clinic admin with saved calendar preferences, as the member record
\* and the index entry hold them.
AdminMember ==
    [BlankMember EXCEPT !.id = U1, !.userId = U1, !.email = EPat,
        !.firstName = NFirst, !.lastName = NLast, !.role = "admin"]

AdminMembership ==
    [BlankMembership EXCEPT !.id = <<U1, OrgA>>, !.orgId = OrgA,
        !.orgName = "Acme", !.role = "admin",
        !.prefs = [defaultView |-> "week", timeZone |-> TimeZone]]

\* One run, approvals in the owner's members tab and the invited user's calendar tab;
\* the invited user is new to the clinic or already one of its admins.
InitPrefs ==
    /\ InitTabs(MaxFaults, 0, MaxMgrOps, MaxSaves)
    /\ inviteTokens = {MkToken(Inv1)}
    /\ \E role \in {Null, "admin"}, e \in {<<EPatMixed, EPat>>, <<NullStr, NullStr>>} :
          /\ invites = {MkInvite("pending", role, e[1], TRUE)}
          /\ account = [email |-> e[2], displayName |-> NullStr]
    /\ \E isMember \in BOOLEAN :
          /\ members = {OwnerMember} \cup (IF isMember THEN {AdminMember} ELSE {})
          /\ orgMemberships = {OwnerMembership} \cup (IF isMember THEN {AdminMembership} ELSE {})
          /\ users = {[MkUser(NFirst, NLast, EPat) EXCEPT
                          !.scopeOrgId = IF isMember THEN OrgA ELSE Null]}
    /\ orgs = {[id |-> OrgA, name |-> "Acme"]}
    /\ storage = EmptyStorage
    /\ storageMode = "ok"
    /\ link = [m \in Mounts |-> GoodLink]
    /\ authUser = U1

NextPrefs ==
    \/ Open(1)
    \/ \E r \in Runs : RunStep(r)
    \/ ApproveStep
    \/ CalStep

SpecPrefs == InitPrefs /\ [][NextPrefs]_vars

\* removeMember(Mgr) in the members tab of the clinic's other admin, whose
\* own row gives the manager role; the button is not rendered for one's own
\* row
PeerRemoveMember ==
    /\ \E d \in members : d.userId = U1 /\ d.role \in {"owner", "admin"}
    /\ Exists(members, Mgr)
    /\ \/ /\ CanFault
          /\ faults' = faults - 1
          /\ members' = members
       \/ /\ faults' = faults
          /\ members' = DeleteDoc(members, Mgr)
    /\ UNCHANGED <<inviteTokens, invites, orgMemberships, users, orgs,
                   storage, storageMode, authUser, account, authChanges, link,
                   page, run, mgr, cal, onb, login>>

\* an invite claimed by a third user and waiting for approval
ClaimedInvite ==
    [MkInvite("pending", "member", <<"z">>, TRUE) EXCEPT
        !.claimedBy = "u3", !.claimedEmail = <<"z">>,
        !.claimedFirstName = <<"Z">>, !.claimedLastName = <<"Y">>]

\* The members tab of a caller whose own member record gives any role or is
\* missing, with or without an index entry of the caller; a second admin is
\* in the roster.
InitRoster ==
    /\ InitTabs(MaxFaults, 0, MaxMgrOps, 0)
    /\ members \in {{AdminMember} \cup own :
                        own \in {{}} \cup {{[OwnerMember EXCEPT !.role = ro]} :
                                              ro \in {"owner", "admin", "member", Null}}}
    /\ orgMemberships \in {{AdminMembership} \cup own :
                               own \in {{}, {OwnerMembership}}}
    /\ inviteTokens = {MkToken(Inv1)}
    /\ invites \in {{[ClaimedInvite EXCEPT !.claimedFirstName = f]} : f \in {<<"Z">>, NullStr}}
    /\ users = {MkUser(NFirst, NLast, EPat)}
    /\ orgs = {[id |-> OrgA, name |-> "Acme"]}
    /\ storage = EmptyStorage
    /\ storageMode = "ok"
    /\ account = [email |-> EPat, displayName |-> NullStr]
    /\ link = [m \in Mounts |-> GoodLink]
    /\ authUser = U1

NextRoster == MgrStep \/ PeerRemoveMember

SpecRoster == InitRoster /\ [][NextRoster]_vars

\* One tab; the invite's status and the two emails vary.
InitGuard ==
    /\ InitClient(MaxFaults, 0, 0)
    /\ inviteTokens = {MkToken(Inv1)}
    /\ invites \in {{MkInvite(status, Null, email, lc)} :
                        status \in {Null, "pending", "accepted", "revoked", "expired"},
                        email \in {NullStr, EPatMixed, EPatPadded, EBob},
                        lc \in BOOLEAN}
    /\ users = {MkUser(NFirst, NLast, EPat)}
    /\ orgs = {[id |-> OrgA, name |-> "Acme"]}
    /\ storage = EmptyStorage
    /\ storageMode \in {"ok", "full"}
    /\ account \in {[email |-> e, displayName |-> NullStr] : e \in {NullStr, EPat, EPatMixed}}
    /\ link = [m \in Mounts |-> GoodLink]
    /\ authUser = U1

NextGuard ==
    \/ Open(1) \/ ProviderAuth(1)
    \/ \E r \in Runs : RunStep(r)

SpecGuard == InitGuard /\ [][NextGuard]_vars

StalePath == <<"/invite", "old", OrgA>>

Storages ==
    {st \in [pendingInvitePath : {NoItem, StalePath}, afterOnboardingNext : {NoItem, StalePath}] :
        TRUE}

\* One tab; the profile, the display name and local storage vary.
InitProfile ==
    /\ InitClient(MaxFaults, 0, 0)
    /\ inviteTokens = {MkToken(Inv1)}
    /\ invites = {MkInvite("pending", "member", EPatMixed, TRUE)}
    /\ users \in {{}} \cup {{MkUser(f, l, EPat)} : f \in {NullStr, NFirst, NBlank},
                                                  l \in {NullStr, NLast}}
    /\ orgs = {[id |-> OrgA, name |-> "Acme"]}
    /\ storageMode \in {"ok", "full", "denied"}
    /\ storage \in Storages
    /\ storageMode = "denied" => storage = EmptyStorage
    /\ account \in {[email |-> EPat, displayName |-> d] : d \in {NullStr, NFirst, DFull, DWide}}
    /\ link = [m \in Mounts |-> GoodLink]
    /\ authUser = U1

SpecProfile == InitProfile /\ [][NextGuard]_vars

Links == [token : {"", Tok1, "tok9"}, org : {"", OrgA, "orgB"}]

\* One tab; the link, the token record, the invite and local storage vary.
InitLink ==
    /\ InitClient(MaxFaults, MaxAuthChanges, 0)
    /\ inviteTokens \in {{MkToken(i)} : i \in {Inv1, Null}}
    /\ invites \in {{}, {MkInvite("pending", "member", EPatMixed, TRUE)}}
    /\ users = {MkUser(NFirst, NLast, EPat)}
    /\ orgs \in {{}, {[id |-> OrgA, name |-> Null]}, {[id |-> OrgA, name |-> "Acme"]}}
    /\ storageMode \in {"ok", "full", "denied"}
    /\ storage \in Storages
    /\ storageMode = "denied" => storage = EmptyStorage
    /\ account = [email |-> EPat, displayName |-> NullStr]
    /\ link \in {[m \in Mounts |-> l] : l \in Links}
    /\ authUser \in {Null, U1}

SpecLink == InitLink /\ [][Next]_vars

\* =============================================================== properties
\* The operations a run has issued since its latest callback began.
RECURSIVE LastCb(_)
LastCb(log) ==
    IF log = <<>> \/ log[Len(log)] = "cb" THEN <<>>
    ELSE Append(LastCb(SubSeq(log, 1, Len(log) - 1)), log[Len(log)])

IsCoreWrite(o) ==
    o \in {"update:invites", "set:members", "set:orgMemberships", "delete:invites"}

IsWrite(o) == IsCoreWrite(o) \/ o \in {"update:users", "set:users"}

CoreWrites(r) == SelectSeq(LastCb(run[r].oplog), IsCoreWrite)

AllWrites(r) == SelectSeq(LastCb(run[r].oplog), IsWrite)

WriteOrder == <<"update:invites", "set:members", "set:orgMemberships", "delete:invites">>

IsPrefix(a, b) == Len(a) <= Len(b) /\ a = SubSeq(b, 1, Len(a))

\* Case-insensitive comparison of two emails that are both present.
Fold(s) == ToLowerCase(Trim(s))

Differ(a, b) == Truthy(a) /\ Truthy(b) /\ Fold(a) # Fold(b)

\* A name that is missing or consists of spaces only.
Blank(s) == s = NullStr \/ \A i \in DOMAIN s : s[i] = " "

Terminal == {"accepted", "revoked", "expired"}

GoodPath == InvitePath(Tok1, OrgA)

\* The invited user's records, however they are keyed.
UserMembers == {d \in members : d.userId = U1}

UserIndex == {e \in orgMemberships : e.id # <<Mgr, OrgA>>}

\* The run's latest callback has read the invite.
HasRead(r) == run[r].inv.id # Null

ChecksPassed(r) ==
    /\ run[r].delivered = U1
    /\ run[r].tokenSnap.id = <<OrgA, Tok1>>
    /\ run[r].tokenSnap.inviteId # Null
    /\ run[r].inv.id = run[r].tokenSnap.inviteId
    /\ run[r].inv.status \notin Terminal
    /\ ~Differ(run[r].inv.email, account.email)
    /\ ~Blank(run[r].firstName) /\ ~Blank(run[r].lastName)

\* C1: within each invocation of a run's callback the remote writes are
\* issued in the order claim write, member creation, index upsert, invite
\* deletion; when one is issued the previous one has been applied to the
\* store; and none is issued unless the token, invite, status, email and
\* profile checks have all passed.
C1_WritesInOrder ==
    \A r \in Runs :
        LET w == CoreWrites(r) IN
        /\ IsPrefix(w, WriteOrder)
        /\ Len(w) >= 2 => (~Exists(invites, Inv1) \/ Get(invites, Inv1).claimedBy = U1)
        /\ Len(w) >= 3 => Exists(members, U1)
        /\ Len(w) >= 4 => Exists(orgMemberships, <<U1, OrgA>>)
        /\ w # <<>> => ChecksPassed(r)

C1_Witness == \E r \in Runs : CoreWrites(r) = WriteOrder /\ run[r].pc = "done"

\* C2: every member record has an index entry of the same user, org and role.
C2_MemberImpliesIndex ==
    \A d \in members :
        \E e \in orgMemberships : e.id = <<d.userId, OrgA>> /\ e.role = d.role

\* C3: once the stored status of an invite is accepted, revoked or expired,
\* no step changes it.
C3_StatusOnlyForward ==
    [][\A d \in invites : d.status \in Terminal =>
          \A e \in invites' : e.id = d.id => e.status = d.status]_vars

\* C4 as stated: after the first run is done there is exactly one member
\* record and one index entry for the user, and no later step changes
\* either.
C4_SecondRunNoOp ==
    /\ [](run[1].pc = "done" => Cardinality(UserMembers) = 1 /\ Cardinality(UserIndex) = 1)
    /\ [][run[1].pc = "done" => members' = members /\ orgMemberships' = orgMemberships]_vars

\* The second run's index write when the two runs looked up different
\* names for the org: only the cached name changes.
RenamesOnly ==
    /\ run[2].pc = "index"
    /\ run[1].orgName # run[2].orgName
    /\ orgMemberships' = {IF e.id = <<U1, OrgA>> THEN [e EXCEPT !.orgName = run[2].orgName]
                          ELSE e : e \in orgMemberships}

\* C4, amended: after the first run is done there is exactly one member
\* record and one index entry for the user; no later step changes the
\* member record, and none changes the index entry except that the second
\* run's index write replaces the cached org name when the two runs' name
\* lookups gave different results (one of them failed and fell back to
\* "Clinic").
C4_SecondRunNoOpButName ==
    /\ [](run[1].pc = "done" => Cardinality(UserMembers) = 1 /\ Cardinality(UserIndex) = 1)
    /\ [][run[1].pc = "done" =>
            /\ members' = members
            /\ orgMemberships' = orgMemberships \/ RenamesOnly]_vars

C4_Witness ==
    /\ run[1].pc = "done" /\ run[2].pc = "done"
    /\ CoreWrites(2) = WriteOrder

\* C5: with two runs in flight there is never more than one member record
\* and one index entry for the user, and a member write over an existing
\* record leaves it as it was.
C5_NoDuplicate ==
    /\ [](Cardinality(UserMembers) <= 1 /\ Cardinality(UserIndex) <= 1)
    /\ [][UserMembers # {} => UserMembers' = UserMembers]_vars

\* both runs passed the status check before either had written, and both
\* went on to write
C5_Witness ==
    /\ \A r \in Runs : run[r].pc = "done" /\ run[r].inv.claimedBy = Null
                       /\ CoreWrites(r) = WriteOrder
    /\ Cardinality(UserMembers) = 1

\* C6: a run whose callback read the invite with status accepted, revoked
\* or expired has failed with not_pending and has issued no write, neither
\* to the invite, the roster and the index nor to the user's scope pointer.
C6_NotPendingNoWrites ==
    \A r \in Runs :
        HasRead(r) /\ run[r].inv.status \in Terminal =>
            /\ run[r].pc = "failed" /\ run[r].reason = "not_pending"
            /\ AllWrites(r) = <<>>

C6_Witness ==
    \E r \in Runs : /\ HasRead(r) /\ run[r].inv.status = "revoked"
                    /\ run[r].reason = "not_pending"
                    /\ page[run[r].mount].err = ErrNotPending

\* C7: a run whose callback read an invite with a target email that differs,
\* case-insensitively, from the email of the signed-in identity has failed
\* and has issued no write; it has failed with email_mismatch unless the
\* status check, which comes first, has already failed it with not_pending.
C7_MismatchNoWrites ==
    \A r \in Runs :
        HasRead(r) /\ Differ(run[r].inv.email, account.email) =>
            /\ run[r].pc = "failed"
            /\ run[r].reason = IF run[r].inv.status \in Terminal
                               THEN "not_pending" ELSE "email_mismatch"
            /\ AllWrites(r) = <<>>

C7_Witness ==
    \E r \in Runs : /\ HasRead(r) /\ run[r].inv.email = EBob /\ run[r].inv.email_lc = NullStr
                    /\ account.email = EPatMixed
                    /\ run[r].reason = "email_mismatch"

\* C8: a run fails with email_mismatch only when the invite's target email
\* and the identity's email are both present and differ case-insensitively;
\* when the invite is pending and either email is missing, or they agree up
\* to case and padding, the callback goes on to read the profile.
C8_SoftGuard ==
    \A r \in Runs :
        /\ run[r].reason = "email_mismatch" =>
              HasRead(r) /\ Differ(run[r].inv.email, account.email)
        /\ (/\ HasRead(r)
            /\ run[r].inv.status \notin Terminal
            /\ ~Differ(run[r].inv.email, account.email)) =>
              /\ run[r].reason # "email_mismatch"
              /\ \E i \in DOMAIN LastCb(run[r].oplog) : LastCb(run[r].oplog)[i] = "get:users"

\* an invite with a target email accepted by an identity without one
C8_Witness ==
    \E r \in Runs : /\ HasRead(r) /\ Truthy(run[r].inv.email) /\ ~Truthy(account.email)
                    /\ CoreWrites(r) # <<>>

HandsOff(r) == run[r].pc = "profileRead" /\ run'[r].pc = "onboarding"

\* what holds of a run at the detour and of one that goes on to claim
DetourOrResolved ==
    /\ [](\A r \in Runs :
            /\ run[r].pc = "onboarding" =>
                  /\ Blank(run[r].firstName) \/ Blank(run[r].lastName)
                  /\ CoreWrites(r) = <<>>
            /\ CoreWrites(r) # <<>> =>
                  ~Blank(run[r].firstName) /\ ~Blank(run[r].lastName))
    /\ [][\A r \in Runs :
              /\ run[r].pc = "profileRead" =>
                    run'[r].pc \in {"profileRead", "onboarding", "claim"}
              /\ HandsOff(r) =>
                    page'[run[r].mount].nav = Append(page[run[r].mount].nav, NavOnboarding)]_vars

\* C9 as stated: a run whose first or last name cannot be resolved sets the
\* after-onboarding key to the invite link, hands off to onboarding and
\* halts without any of the four writes; a run that writes has resolved
\* both names.
C9_DetourSetsKey ==
    /\ DetourOrResolved
    /\ [][\A r \in Runs : HandsOff(r) => storage'.afterOnboardingNext = GoodPath]_vars

\* C9, amended: the same, except that the after-onboarding key is set to
\* the invite link only when the write to local storage does not throw;
\* when it throws the key keeps the value it had.
C9_DetourSetsKeyIfWritable ==
    /\ DetourOrResolved
    /\ [][\A r \in Runs : HandsOff(r) =>
              IF storageMode = "ok" THEN storage'.afterOnboardingNext = GoodPath
              ELSE storage' = storage]_vars

C9_Witness ==
    \E r \in Runs : /\ run[r].pc = "onboarding"
                    /\ run[r].firstName = NFirst /\ run[r].lastName = NullStr
                    /\ storage.afterOnboardingNext = GoodPath
                    /\ members = {OwnerMember}

\* C10: a run started from a link without a token or without an org has
\* failed with invalid_link, has issued no remote operation, and both
\* resume keys are unset.
C10_InvalidLink ==
    \A r \in Runs :
        run[r].mount # 0 /\ (link[run[r].mount].token = "" \/ link[run[r].mount].org = "") =>
            /\ run[r].pc = "failed" /\ run[r].reason = "invalid_link"
            /\ run[r].oplog = <<>>
            /\ storage = EmptyStorage
            /\ page[run[r].mount].err = ErrInvalidLink

C10_Witness ==
    \E r \in Runs : /\ run[r].reason = "invalid_link"
                    /\ link[run[r].mount] = [token |-> Tok1, org |-> ""]
                    /\ storage = EmptyStorage

\* ------------------------------------------------------------ resume keys
LinkOf(r) == link[run[r].mount]

ValidLink(r) == run[r].mount # 0 /\ LinkOf(r).token # "" /\ LinkOf(r).org # ""

TokenId(r) == <<LinkOf(r).org, LinkOf(r).token>>

PathOf(r) == InvitePath(LinkOf(r).token, LinkOf(r).org)

KeysOf(st) == {st.pendingInvitePath, st.afterOnboardingNext}

\* C11: a run whose link names a token with no record in the link's org,
\* once its token read has returned, has failed with not_found after that
\* one read, and both resume keys are unset.
C11_UnknownToken ==
    \A r \in Runs :
        (/\ ValidLink(r)
         /\ ~Exists(inviteTokens, TokenId(r))
         /\ run[r].pc \notin {"tokenRead", "crashed"}) =>
            /\ run[r].pc = "failed" /\ run[r].reason = "not_found"
            /\ run[r].oplog = <<"get:inviteTokens">>
            /\ storage = EmptyStorage

C11_Witness ==
    \E r \in Runs : /\ ValidLink(r) /\ LinkOf(r).org = "orgB"
                    /\ run[r].reason = "not_found"
                    /\ page[run[r].mount].err = ErrTokenNotFound
                    /\ storage = EmptyStorage

\* C12: a run that has failed with invalid_link, not_found (token or
\* invite record missing) or malformed_token has both resume keys unset.
C12_LinkErrorsClearKeys ==
    \A r \in Runs :
        run[r].pc = "failed" /\ run[r].reason \in {"invalid_link", "not_found", "malformed_token"}
            => storage = EmptyStorage

\* the run whose position moves in this step
Moves(r) == run'[r].pc # run[r].pc

\* C13: a step that sets a resume key to a new value is the step of a run
\* that holds, after it, the record of its link's token; and while the
\* link's token has no record no step sets a key.
C13_ValidateThenStash ==
    [][\A k \in {"pendingInvitePath", "afterOnboardingNext"} :
          storage'[k] # storage[k] /\ storage'[k] # NoItem =>
              \E r \in Runs : /\ Moves(r)
                              /\ ValidLink(r)
                              /\ Exists(inviteTokens, TokenId(r))
                              /\ run'[r].tokenSnap = Get(inviteTokens, TokenId(r))]_vars

\* the read of an unknown token has returned and the stale keys are gone
C13_Witness ==
    \E r \in Runs : /\ ValidLink(r) /\ LinkOf(r).token = "tok9" /\ LinkOf(r).org = OrgA
                    /\ run[r].pc = "failed"
                    /\ KeysOf(storage) = {NoItem}

AwaitsAuth(r) == run[r].pc = "awaitAuth" /\ run[r].delivered # U1

\* C14 as stated: while a run with a valid token awaits authentication both
\* keys equal its invite link.
C14_StashBeforeAuth ==
    \A r \in Runs : AwaitsAuth(r) => KeysOf(storage) = {PathOf(r)}

SomeRunCleared == \E q \in Runs : \E i \in DOMAIN run[q].oplog : run[q].oplog[i] = "delete:invites"

\* C14, amended: when a run starts to await authentication both keys equal
\* its invite link provided local storage accepts writes, and they keep
\* that value while it waits unless another run of the same link has
\* completed and cleared them; when setItem throws the keys are unchanged.
C14_StashBeforeAuthIfWritable ==
    /\ [](\A r \in Runs :
            AwaitsAuth(r) /\ storageMode = "ok" /\ ~SomeRunCleared =>
                KeysOf(storage) = {PathOf(r)})
    /\ [][\A r \in Runs :
            run[r].pc = "tokenRead" /\ run'[r].pc = "awaitAuth" =>
                /\ run'[r].subscribed
                /\ IF storageMode = "ok" THEN KeysOf(storage') = {PathOf(r)}
                   ELSE storage' = storage]_vars

C14_Witness ==
    \E r \in Runs : /\ AwaitsAuth(r) /\ authUser = Null /\ run[r].reason = "sign_in"
                    /\ page[run[r].mount].err = ErrSignIn
                    /\ KeysOf(storage) = {GoodPath}

Blocked(r) == run[r].pc = "failed" /\ run[r].reason \in {"email_mismatch", "not_pending"}

\* C15: the step that fails a run with email_mismatch or not_pending leaves
\* local storage as it is; afterwards both keys hold the invite link the
\* run stashed (when the stash could be written), the user is still signed
\* in and the invite page is still shown, without any navigation.
C15_BlockedKeepsKeys ==
    /\ [](\A r \in Runs : Blocked(r) =>
            /\ storageMode = "ok" => KeysOf(storage) = {PathOf(r)}
            /\ authUser = U1
            /\ page[run[r].mount].state = "mounted"
            /\ page[run[r].mount].nav = <<>>)
    /\ [][\A r \in Runs : Moves(r) /\ run'[r].pc = "failed"
                          /\ run'[r].reason \in {"email_mismatch", "not_pending"}
                          => storage' = storage]_vars

C15_Witness ==
    \E r \in Runs : /\ Blocked(r) /\ run[r].reason = "email_mismatch"
                    /\ page[run[r].mount].err = ErrEmail
                    /\ KeysOf(storage) = {GoodPath}

\* the member write of run r is rejected in this step
MemberRejected(r) == run[r].pc = "member" /\ Moves(r) /\ faults' < faults

\* C16: when the member write is rejected the run fails with the error
\* shown on the page (if it is still mounted), and that step changes
\* neither the store nor local storage, the scope or the navigation; the
\* run issues no further write, and the claim block stays on the invite.
C16_MemberFailureHalts ==
    /\ [][\A r \in Runs : MemberRejected(r) =>
            /\ run'[r].pc = "failed" /\ run'[r].reason = "error"
            /\ UNCHANGED <<storeVars, storage>>
            /\ page'[run[r].mount].nav = page[run[r].mount].nav
            /\ page'[run[r].mount].scope = page[run[r].mount].scope
            /\ page[run[r].mount].state = "mounted" =>
                  /\ page'[run[r].mount].err = ErrRejected
                  /\ ~page'[run[r].mount].busy]_vars
    /\ [](\A r \in Runs :
            run[r].pc = "failed" /\ CoreWrites(r) # <<>> /\ AllWrites(r)[Len(AllWrites(r))] = "set:members" =>
                /\ AllWrites(r) = <<"update:invites", "set:members">>
                /\ Exists(invites, Inv1) => Get(invites, Inv1).claimedBy = U1)

C16_Witness ==
    \E r \in Runs : /\ run[r].pc = "failed" /\ run[r].reason = "error"
                    /\ AllWrites(r) = <<"update:invites", "set:members">>
                    /\ Exists(invites, Inv1) /\ Get(invites, Inv1).claimedBy = U1
                    /\ ~Exists(members, U1) /\ ~Exists(orgMemberships, <<U1, OrgA>>)
                    /\ page[run[r].mount].err = ErrRejected
                    /\ KeysOf(storage) = {GoodPath}

Stopped == {"failed", "crashed"}

\* C17: a rejected org-name read leads on to the index write with the name
\* "Clinic"; the step after the delete, rejected or not, leads on to the
\* scope update or to completion; no run stops except at a step whose
\* remote operation was rejected or found the invite gone, whatever the
\* state of local storage; and a run that is done has made all four writes
\* and the member record and index entry exist.
C17_BestEffort ==
    /\ [][\A r \in Runs :
            /\ run[r].pc = "orgRead" /\ Moves(r) =>
                  /\ run'[r].pc = "index"
                  /\ faults' < faults => run'[r].orgName = "Clinic"
            /\ run[r].pc = "delete" /\ Moves(r) => run'[r].pc \in {"setOrgUpdate", "done"}
            /\ Moves(r) /\ run'[r].pc \in Stopped =>
                  faults' < faults \/ ~Exists(invites, Inv1)]_vars
    /\ [](\A r \in Runs : run[r].pc = "done" =>
            /\ CoreWrites(r) = WriteOrder
            /\ Exists(members, U1) /\ Exists(orgMemberships, <<U1, OrgA>>))

\* all three at once: name read rejected, delete rejected, storage denied
C17_Witness ==
    \E r \in Runs : /\ run[r].pc = "done" /\ run[r].orgName = "Clinic"
                    /\ Exists(invites, Inv1)
                    /\ storageMode = "denied"
                    /\ Exists(members, U1)
                    /\ Exists(orgMemberships, <<U1, OrgA>>)
                    /\ Get(orgMemberships, <<U1, OrgA>>).orgName = "Clinic"
                    /\ faults = 0

Completes(r) == Moves(r) /\ run'[r].pc = "done"

\* the role the invite grants, "member" when it stores none
InvitedRole(r) == IF run[r].inv.role = Null THEN "member" ELSE run[r].inv.role

C19_MemberCreatedOnce ==
    [][\A r \in Runs :
        run[r].pc = "member" /\ Moves(r) =>
            \A d \in members : d.id = U1 => d \in members']_vars

IndexWritten(r) == run[r].pc = "index" /\ Moves(r) /\ run'[r].pc \notin Stopped

ApproveIndexWritten == mgr.pc = "apIndex" /\ mgr'.pc = "apInvite"

\* C20: the index write of the accept flow and the index write of
\* approveInvite keep every index entry's prefs (defaultView, timeZone) as
\* the calendar preferences tab saved them, also when the save's two writes
\* are interleaved with them.
C20_IndexWritesKeepPrefs ==
    [][(ApproveIndexWritten \/ \E r \in Runs : IndexWritten(r)) =>
            \A d \in orgMemberships :
                \E e \in orgMemberships' : e.id = d.id /\ e.prefs = d.prefs]_vars

C20_Witness ==
    /\ \E r \in Runs : run[r].pc = "done"
    /\ mgr.pc = "apInvite"
    /\ cal.ops < MaxSaves /\ cal.pc = "idle"
    /\ Get(orgMemberships, <<U1, OrgA>>).prefs = [defaultView |-> "day", timeZone |-> TimeZone]
    /\ Get(orgMemberships, <<U1, OrgA>>).role # Null

Ops(log) == {log[i] : i \in DOMAIN log}

\* C21: every step that changes an index entry is the index write of a flow
\* that has written the member record of the same pair before it: the accept
\* run after its member write, or approveInvite after its member write.
C21_IndexOnlyAfterMember ==
    [][orgMemberships' # orgMemberships =>
          \/ mgr.pc = "apIndex" /\ mgr'.pc = "apInvite"
          \/ \E r \in Runs :
                /\ run[r].pc = "index" /\ Moves(r)
                /\ "set:members" \in Ops(LastCb(run[r].oplog))]_vars

ClaimDone(r) == run[r].pc = "claim" /\ run'[r].pc = "member"

\* the run's last callback stopped at its member write, the claim being
\* the only write that went through
HaltedAfterClaim(r) ==
    run[r].pc \in Stopped /\ CoreWrites(r) = <<"update:invites", "set:members">>

\* the claim block of the stored invite
Claimed(d) ==
    /\ d.status = "pending"
    /\ d.claimedBy = U1
    /\ d.claimedEmail = MyEmail
    /\ ~Blank(d.claimedFirstName) /\ ~Blank(d.claimedLastName)

ClaimLeavesRow ==
    \A r \in Runs : ClaimDone(r) =>
        /\ Exists(invites', Inv1) /\ Claimed(Get(invites', Inv1))
        /\ \E row \in PendingRows' : row.id = Inv1 /\ row.claimedBy = U1

ClaimLeavesEmail ==
    \A r \in Runs : ClaimDone(r) => Get(invites', Inv1).claimedEmail # NullStr

ApproveCreates ==
    /\ mgr.pc = "apMember" /\ mgr'.pc = "apIndex" =>
          \E d \in members' : /\ d.id = mgr.args.uid /\ d.userId = mgr.args.uid
                              /\ d.role = mgr.args.role
    /\ mgr.pc = "apIndex" /\ mgr'.pc = "apInvite" =>
          \E e \in orgMemberships' : /\ e.id = <<mgr.args.uid, OrgA>>
                                     /\ e.orgId = OrgA /\ e.role = mgr.args.role

ApproveEnabled ==
    \A r \in Runs :
        /\ HaltedAfterClaim(r)
        /\ \E row \in mgr.pending : row.id = Inv1 /\ row.claimedBy = U1
        /\ CanManage /\ mgr.pc = "idle" /\ mgr.ops > 0
        => ENABLED ApproveClick

\* C22 as stated: the claim step leaves the invite present, pending, with
\* claimedBy, claimed email and claimed names filled, listed among the
\* pending rows with its Approve button; approveInvite on such a row is
\* enabled for a manager and its writes create the member record and the
\* index entry of the claimant.
C22_ClaimLeavesApprovable ==
    /\ [][ClaimLeavesRow /\ ClaimLeavesEmail /\ ApproveCreates]_vars
    /\ []ApproveEnabled

\* C22 amended: the same, where the claimed email is the account's
\* normalised email and is null for an account without one.
C22_ClaimLeavesApprovableEmailIfAny ==
    /\ [][ClaimLeavesRow /\ ApproveCreates]_vars
    /\ []ApproveEnabled

C22_Witness ==
    \E r \in Runs :
        /\ HaltedAfterClaim(r)
        /\ mgr.pc = "apInvite" /\ mgr.args.uid = U1
        /\ Exists(members, U1) /\ Get(members, U1).fromInviteId = Null
        /\ Exists(orgMemberships, <<U1, OrgA>>)
        /\ Get(invites, Inv1).claimedEmail # NullStr

\* run r has claimed the invite that approveInvite is working on
ClaimedBy(r) ==
    /\ run[r].inv.id = mgr.args.id /\ mgr.args.uid = U1
    /\ "update:invites" \in Ops(CoreWrites(r))

\* C23: for an invite claimed by a run, the member record approveInvite
\* creates is the record the run's member write creates (same fields, same
\* userId, email, names and role), and the index entry approveInvite creates
\* has the orgId, orgName and role of the run's index write.
C23_SameShape ==
    [][\A r \in Runs : ClaimedBy(r) =>
        /\ mgr.pc = "apMember" /\ mgr'.pc = "apIndex" /\ ~Exists(members, U1) =>
              Get(members', U1) = Written(BlankMember, U1, MemberPayload(run[r]))
        /\ mgr.pc = "apIndex" /\ mgr'.pc = "apInvite"
           /\ ~Exists(orgMemberships, <<U1, OrgA>>) /\ run[r].orgName # Null =>
              Get(orgMemberships', <<U1, OrgA>>) =
                  Written(BlankMembership, <<U1, OrgA>>, IndexPayload(run[r]))]_vars

\* run r's last callback was stopped by the rejection of the write it
\* issued at position p
HaltedAt(r, p) ==
    /\ run[r].pc = "failed" /\ run[r].reason = "error"
    /\ LastCb(run[r].oplog) # <<>>
    /\ LastCb(run[r].oplog)[Len(LastCb(run[r].oplog))] = OpOf(p)

HaltedByWrite(r) == \E p \in {"claim", "member", "index"} : HaltedAt(r, p)

OneMembership ==
    /\ Cardinality(UserMembers) = 1 /\ Exists(members, U1)
    /\ Cardinality(UserIndex) = 1 /\ Exists(orgMemberships, <<U1, OrgA>>)

\* C24: when the first run was halted by a rejected claim, member or index
\* write and the reloaded page has started its run with no rejection left
\* to come, that run reaches done, with exactly one member record and one
\* index entry for the user.
C24_ReloadCompletes ==
    \A p \in {"claim", "member", "index"} :
        (HaltedAt(1, p) /\ run[2].pc = "tokenRead" /\ faults = 0)
            ~> (run[2].pc = "done" /\ OneMembership)

C24_Witness ==
    /\ HaltedAt(1, "index")
    /\ run[2].pc = "done" /\ CoreWrites(2) = WriteOrder
    /\ OneMembership
    /\ ~Exists(invites, Inv1)

Joined(r) ==
    /\ run[r].pc = "done" /\ CoreWrites(r) = WriteOrder
    /\ Exists(members, U1) /\ Get(members, U1).role = InvitedRole(r)
    /\ Exists(orgMemberships, <<U1, OrgA>>)

ResumesPlain ==
    (onb.pc = "saving" /\ faults = 0 /\ storageMode = "ok" /\ link[1].token = Tok1)
        ~> (\E r \in Runs : Joined(r))

\* ---------------------------------------------------------------- teardown
\* The page of run r has been torn down.
TornDown(r) == run[r].mount # 0 /\ page[run[r].mount].state = "unmounted"

\* An auth-state event starts the resolve step of run r.
StartsResolve(r) == run[r].pc \in Resting /\ run'[r].pc = "inviteRead"

\* C26: once the page is torn down its listener is released, whenever the
\* teardown happens: no auth-state event starts the resolve, claim, member
\* and index steps of a run whose page is torn down.
C26_TeardownReleases == [][\A r \in Runs : TornDown(r) => ~StartsResolve(r)]_vars

\* ----------------------------------------------------------- terminal runs
\* Run r is in a terminal state and its page is still mounted.
Ended(r) ==
    /\ run[r].pc \in {"done", "failed"}
    /\ page[run[r].mount].state = "mounted"

\* An earlier callback of run r has resolved the invite and is over, and
\* the page is still mounted: the callback ended in DONE or FAILED (the
\* onboarding detour and the success navigation unmount the page).
EndedBefore(r) ==
    /\ run[r].pc \in Resting
    /\ \E i \in DOMAIN run[r].oplog : run[r].oplog[i] = "get:invites"
    /\ page[run[r].mount].state = "mounted"

\* C27: a run that has reached DONE or FAILED has released its listener:
\* from then on, whatever the session does while the page is mounted, no
\* auth-state event starts the resolve step of the run again.
C27_TerminalReleases ==
    [][\A r \in Runs : Ended(r) \/ EndedBefore(r) => ~StartsResolve(r)]_vars

\* ------------------------------------------------------ success navigation
\* The navigations to the application root made by a page.
HomeNavs(pg) == {i \in DOMAIN pg.nav : pg.nav[i].to = "/"}

\* C28: a mounted page navigates to the root at most once, however many
\* callbacks complete the sequence in it, and the flag that ensures it is
\* the page's own: a completion navigates exactly when its own page has not
\* navigated yet, whatever another tab has done.
C28_NavigatesOnce ==
    /\ [](\A m \in Mounts : Cardinality(HomeNavs(page[m])) <= 1)
    /\ [][\A r \in Runs : Completes(r) =>
              LET m == run[r].mount IN
              /\ Cardinality(HomeNavs(page'[m])) = 1
              /\ HomeNavs(page[m]) = {} =>
                    page'[m].nav = Append(page[m].nav, NavHome(run[r].orgName))
              /\ \A k \in Mounts \ {m} : page'[k].nav = page[k].nav]_vars

\* Two callbacks have completed the sequence in one page.
C28_Witness ==
    \E m \in Mounts :
        /\ \A r \in Runs : run[r].mount = m /\ run[r].pc = "done"
        /\ Cardinality(HomeNavs(page[m])) = 1

\* ------------------------------------------------------------- not found
\* Run r ends in FAILED:not_found at this step.
EndsNotFound(r) ==
    /\ run[r].pc \in {"tokenRead", "inviteRead"}
    /\ run'[r].pc = "failed" /\ run'[r].reason = "not_found"

\* The resume pointer after clearing: what it was when local storage cannot
\* be reached, unset otherwise.
Cleared == IF storageMode = "denied" THEN storage ELSE EmptyStorage

\* C29: a missing invite record ends the run as a missing token does: with
\* the same message, the same buttons and the same resume keys.
C29_NotFoundAlike ==
    [][\A r \in Runs : EndsNotFound(r) =>
          /\ page'[run[r].mount].err = ErrTokenNotFound
          /\ Buttons(page'[run[r].mount]) = {"Sign in", "Sign up"}
          /\ storage' = Cleared]_vars

\* The same, for the missing token only.
MissingTokenOutcome ==
    [][\A r \in Runs : EndsNotFound(r) /\ run[r].pc = "tokenRead" =>
          /\ page'[run[r].mount].err = ErrTokenNotFound
          /\ Buttons(page'[run[r].mount]) = {"Sign in", "Sign up"}
          /\ storage' = Cleared]_vars

\* -------------------------------------------------------- accepted invite
\* The callback of run r reads an invite whose status is accepted.
ReadsAccepted(r) == run[r].pc = "inviteRead" /\ run'[r].inv.status = "accepted"

\* C30: an invite already accepted ends the run in FAILED:not_pending with
\* no write, and the panel then offers Go home, not Sign in and Sign up.
C30_AcceptedOffersGoHome ==
    /\ [](\A r \in Runs : HasRead(r) /\ run[r].inv.status = "accepted" =>
              /\ run[r].pc = "failed" /\ run[r].reason = "not_pending"
              /\ AllWrites(r) = <<>>)
    /\ [][\A r \in Runs : ReadsAccepted(r) =>
              Buttons(page'[run[r].mount]) = {"Go home"}]_vars

\* What the panel offers then: the message with Sign in and Sign up.
AcceptedOffersSignIn ==
    [][\A r \in Runs : ReadsAccepted(r) =>
          /\ page'[run[r].mount].err = ErrNotPending
          /\ Buttons(page'[run[r].mount]) = {"Sign in", "Sign up"}]_vars

\* A callback that has resolved the invite and is over with the page
\* mounted has ended in FAILED.
EndedBeforeIsFailed ==
    [][\A r \in Runs :
          run[r].pc \in InFlight \ {"tokenRead"} /\ run'[r].pc \in Resting
          /\ page'[run[r].mount].state = "mounted" => run'[r].pc = "failed"]_vars

\* ------------------------------------------------------------------- role
MemberDone(r) == run[r].pc = "member" /\ run'[r].pc = "orgRead"

\* C31: the claim write stores the invite's status, or pending when it had
\* none, and its role, or "member" when it had none; the member write of the
\* run stores the role the invite then holds, and its index write the role
\* of the member record.
C31_RoleConsistent ==
    [][\A r \in Runs :
          LET id == run[r].tokenSnap.inviteId IN
          /\ ClaimDone(r) =>
                /\ Get(invites', id).status = StatusOf(Get(invites, id))
                /\ Get(invites', id).role = RoleOf(Get(invites, id))
                /\ Get(invites', id).role = RoleOf(run[r].inv)
          /\ MemberDone(r) =>
                /\ Get(members', U1).role = RoleOf(run[r].inv)
                /\ Exists(invites, id) => Get(members', U1).role = Get(invites, id).role
          /\ IndexWritten(r) =>
                /\ Get(orgMemberships', <<U1, OrgA>>).role = RoleOf(run[r].inv)
                /\ Get(orgMemberships', <<U1, OrgA>>).role = Get(members, U1).role]_vars

\* An invite stored with no status and no role: after the three writes the
\* invite is pending and the three stores hold "member".
C31_Witness ==
    \E r \in Runs :
        /\ run[r].pc = "delete"
        /\ run[r].inv.status = Null /\ run[r].inv.role = Null
        /\ Exists(invites, Inv1)
        /\ Get(invites, Inv1).status = "pending" /\ Get(invites, Inv1).role = "member"
        /\ Get(members, U1).role = "member"
        /\ Get(orgMemberships, <<U1, OrgA>>).role = "member"

\* ------------------------------------------------------ management rights
\* A write of approveInvite, revokeInvite or removeMember in the caller's tab.
MgrWrites ==
    /\ mgr' # mgr
    /\ invites' # invites \/ members' # members \/ orgMemberships' # orgMemberships

\* C32: approveInvite, revokeInvite and removeMember write only while the
\* caller's own member record gives the role owner or admin; a caller with
\* the role member, or with no member record, writes nothing, whatever the
\* index holds.
C32_RosterDecides ==
    [][MgrWrites => MyRoleIn(members) \in {"owner", "admin"}]_vars

\* A management action starts only under a manager role as the members
\* listener last delivered it.
LastSeenRoleDecides ==
    [][mgr.pc = "idle" /\ mgr'.ops < mgr.ops => CanManage]_vars

\* ----------------------------------------------------------- login hand-off
\* handleAfterSignIn of a signed-in user returns or rejects in this step.
AfterSignInEnds ==
    /\ login.pc \in {"userRead", "create", "recheck"}
    /\ login'.pc \in {"left", "error"}

\* The profile as handleAfterSignIn sees it has completed onboarding.
Onboarded == Exists(users, U1) /\ Get(users, U1).hasCompletedOnboarding

\* The hand-off of destination d by this step.
HandsTo(d) ==
    IF Onboarded
    THEN /\ login'.pc = "left"
         /\ login'.to = IF d # NoItem THEN d ELSE <<"/">>
         /\ d # NoItem => login'.loginNext = NoItem /\ storage'.pendingInvitePath = NoItem
    ELSE /\ login'.pc = "left"
         /\ login'.to = OnboardingPath
         /\ d # NoItem =>
               /\ storage'.afterOnboardingNext = d
               /\ login'.loginNext = NoItem /\ storage'.pendingInvitePath = NoItem

\* C33: after a sign-in whose remote operations succeed, the destination is
\* the URL's next, else the post-login key, else the pending-invite key; an
\* onboarded user is taken there with the post-login and pending-invite keys
\* cleared, and any other user to onboarding with the destination under the
\* after-onboarding key and the other two keys cleared.
C33_LoginHandsOff ==
    [][AfterSignInEnds /\ faults' = faults /\ (login.pc = "recheck" => Exists(users, U1))
          => HandsTo(LoginDestination)]_vars

\* The same while local storage can be read and written.
HandsOffWhenWritable ==
    [][AfterSignInEnds /\ faults' = faults /\ (login.pc = "recheck" => Exists(users, U1))
          /\ storageMode = "ok" => HandsTo(LoginDestination)]_vars

\* ------------------------------------------- onboarding consumes the pointer
\* p is an invite link; it names a token and an org; its token has a record.
IsInviteLink(p) == Len(p) = 3
LinkComplete(p) == p[2] # "" /\ p[3] # ""
TokenRecordOf(p) == Exists(inviteTokens, <<p[3], p[2]>>)

BothKeysCleared == storage'.afterOnboardingNext = NoItem /\ storage'.pendingInvitePath = NoItem

FollowsLink(p) ==
    /\ storage'.afterOnboardingNext = NoItem
    /\ onb'.pc = "left" /\ onb'.to = p

\* saveProfile has saved the profile and looks at the after-onboarding key.
ProfileSaved == onb.pc = "saving" /\ faults' = faults /\ storageMode # "denied"

\* what saveProfile does with the after-onboarding key, for the links in ps
Consumes(ps) ==
    /\ ProfileSaved =>
          LET next == storage.afterOnboardingNext IN
          IF next = NoItem THEN storage'.afterOnboardingNext = NoItem
          ELSE IF ~IsInviteLink(next) THEN FollowsLink(next)
          ELSE IF ~LinkComplete(next) THEN BothKeysCleared /\ onb'.pc # "left"
          ELSE onb'.pc = "tokenCheck" /\ onb'.next = next
    /\ onb.pc = "tokenCheck" /\ onb'.pc # "tokenCheck" /\ onb.next \in ps =>
          IF faults' = faults /\ TokenRecordOf(onb.next)
          THEN FollowsLink(onb.next)
          ELSE BothKeysCleared /\ onb'.pc # "left"

ConsumesPlainLinks == [][Consumes(Destinations \ {InvitePath(TokPlus, OrgA)})]_vars

\* ------------------------------------------------ createClinic and invites
\* createClinic is called in this step.
ClinicClicked == onb.pc = "clinic" /\ onb'.pc # "clinic"

\* C35: while the pending-invite key is set, createClinic creates nothing:
\* the call navigates to the pending link, and no step writes an org, a
\* member record or an index entry.
C35_PendingInviteNoClinic ==
    [][storage.pendingInvitePath # NoItem =>
          /\ UNCHANGED <<orgs, members, orgMemberships>>
          /\ onb'.pc \notin {"newOrg", "newMember", "newIndex", "newScope"}
          /\ ClinicClicked =>
                /\ onb'.pc = "left" /\ onb'.to = storage.pendingInvitePath
                /\ UNCHANGED storeVars]_vars

\* createClinic has followed the pending invite link: the page has left for
\* it from the clinic step, the after-onboarding key having been empty.
C35_Witness ==
    /\ onb.pc = "left" /\ onb.next = NoItem /\ onb.firstName # <<>>
    /\ onb.to = InvitePath(Tok1, OrgA)
    /\ storage.pendingInvitePath = onb.to
    /\ orgs = {[id |-> OrgA, name |-> "Acme"]}

\* ------------------------------------------------ revocation and membership
\* A member record is written in this step (created or overwritten).
MemberWritten == \E d \in members' : d \notin members

StoredRevoked == \E i \in invites : i.id = Inv1 /\ i.status = "revoked"

\* C36: no member record is written for an invite whose stored status is
\* revoked at the time of the write, by a run of the invite page or by
\* approveInvite, under every interleaving with revokeInvite.
C36_NoGrantThroughRevoked == [][MemberWritten => ~StoredRevoked]_vars

\* What the code does ensure: a run that read the invite as revoked writes no
\* member record.
ReadRevokedNotGranted ==
    [][\A r \in Runs : run[r].inv.status = "revoked" => ~(run'[r].pc # run[r].pc /\ MemberWritten)]_vars

\* ------------------------------------------------ leaving the busy state
\* The run rests (DONE, FAILED, waiting for sign-in, handed to onboarding)
\* and its page shows no busy indicator.
Settled(r) == run[r].pc \in Resting /\ ~page[run[r].mount].busy

\* C37: every run eventually leaves the busy state, also when a remote read
\* or write is rejected, the initial token read included.
C37_RunLeavesBusy == \A r \in Runs : (run[r].pc # "idle") ~> Settled(r)

\* What the code does ensure: a run leaves the busy state unless a token
\* read of its page was rejected.
LeavesBusyAfterTokenRead ==
    \A r \in Runs : (run[r].pc # "idle") ~> (Settled(r) \/ \E q \in Runs : run[q].pc = "crashed")

\* ------------------------------------------------ invite and onboarding
\* One round trip is completed: Onboarding has sent the user back to the
\* invite link and the invite page is mounted anew.
Bounce == onb.pc = "left" /\ onb'.pc = "closed"

\* C38: the invite page and the Onboarding page never redirect to each other
\* forever: for every profile state, from some point on no more redirect
\* between them happens.
C38_RedirectsEnd == <>[][~Bounce]_vars

\* The stored onboarding flag agrees with the stored names.
FlagMatchesNames ==
    \A u \in users : u.hasCompletedOnboarding =>
        Truthy(ProfileName(u.firstName)) /\ Truthy(ProfileName(u.lastName))

\* What the code does ensure: the redirects end for a user whose display
\* name gives both names or whose onboarding flag is set only over stored
\* names.
RedirectsEndWhenFlagMatches ==
    (FlagMatchesNames \/ account.displayName # NullStr) => <>[][~Bounce]_vars

\* ------------------------------------------------ two runs, no rejection
\* No rejection has been injected so far.
NoFailureInjected == faults = MaxFaults

\* The run read the invite while it was stored and pending: it was in
\* flight before the other run deleted the invite.
ReadPending(r) == run[r].inv.id = Inv1 /\ StatusOf(run[r].inv) = "pending"

\* C39: two concurrent runs for the same user and the same pending invite,
\* with no store failure injected, both end in DONE: neither ends FAILED
\* with an error shown, in every interleaving.
C39_BothRunsDone ==
    NoFailureInjected =>
        \A r \in Runs : ReadPending(r) =>
            ~(run[r].pc = "failed" /\ page[run[r].mount].err # Null)

\* What the code does ensure: without an injected failure a run that read
\* the invite as pending fails only at its claim update, the invite having
\* been deleted by the other run, and after the member record was written.
FailsOnlyAtClaim ==
    NoFailureInjected =>
        \A r \in Runs : ReadPending(r) /\ run[r].pc = "failed" =>
            /\ CoreWrites(r) = <<"update:invites">>
            /\ invites = {}
            /\ \E d \in members : d.userId = U1
            /\ \E x \in orgMemberships : x.id = <<U1, OrgA>>

\* ------------------------------------------------ setOrg
\* setOrg(o) of run r resolves in this step: its update or its merge-set
\* was accepted, or it had nothing to persist.
SetOrgResolves(r) ==
    /\ run[r].pc \in {"delete", "setOrgUpdate", "setOrgSet"}
    /\ run'[r].pc = "done"

\* setOrg(o) of run r rejects in this step: the update and the merge-set
\* were both rejected.
SetOrgRejects(r) == run[r].pc = "setOrgSet" /\ run'[r].pc = "failed"

PersistedScope == IF Exists(users, U1) THEN Get(users, U1).scopeOrgId ELSE Null

\* C40: setOrg keeps the in-memory scope and the persisted scope pointer in
\* agreement: for a signed-in user, when setOrg(o) resolves the persisted
\* pointer is o, and when both persistence attempts fail the in-memory
\* scope is not left pointing at o.
C40_ScopeAgrees ==
    [][\A r \in Runs :
         LET m == run[r].mount IN
         /\ SetOrgResolves(r) /\ authUser = U1 => PersistedScope' = link[m].org
         /\ SetOrgRejects(r) => page'[m].scope # link[m].org]_vars

\* What the code does ensure: a setOrg whose provider has seen the session
\* resolves only with the pointer persisted.
PersistedWhenProviderKnows ==
    [][\A r \in Runs :
         SetOrgResolves(r) /\ run[r].setOrgUser = U1 =>
             PersistedScope' = link[run[r].mount].org]_vars

\* The first half of C40 alone: every setOrg of a signed-in user that
\* resolves has persisted the pointer.
ResolvesPersisted ==
    [][\A r \in Runs :
         SetOrgResolves(r) /\ authUser = U1 => PersistedScope' = link[run[r].mount].org]_vars

\* The second half of C40 alone: a rejected setOrg does not leave the
\* in-memory scope at the org it was called with.
RejectedLeavesScope ==
    [][\A r \in Runs : SetOrgRejects(r) => page'[run[r].mount].scope # link[run[r].mount].org]_vars

====
